---- MODULE Spec2Model ----
(***************************************************************************)
(* A model of the kernel session management layer of vscode-jupyter:       *)
(*   - ServerCache            (kernels/jupyter/launcher/liveshare)         *)
(*   - KernelProvider         (kernels/kernelProvider)                     *)
(*   - JupyterSessionManager  (kernels/jupyter/session)                    *)
(* Each component has its own specification (SpecCache, SpecKernel,        *)
(* SpecSession, SpecTrust); the variables of the other components stay at  *)
(* their initial values.                                                   *)
(*                                                                         *)
(* The program runs on one event loop.  An async function is cut at its    *)
(* awaits: every piece between two suspension points is one atomic action, *)
(* and the pieces of different calls interleave freely.                    *)
(***************************************************************************)
EXTENDS Integers, Sequences, FiniteSets, TLC

VARIABLES
    \* ---- ServerCache
    cache,      \* ServerCache.cache: key -> index of the IServerData in created (0: no entry)
    created,    \* one record per createFunction invocation: the promise, its server, data.resolved
    calls,      \* the getOrCreate calls in flight or finished
    \* ---- KernelProvider
    notebookDocuments,  \* workspace.notebookDocuments: the uris with an open notebook document
    kernelsByNotebook,  \* BaseKernelProvider.kernelsByNotebook: uri -> {options, kernel}
    kernelsByUri,       \* BaseKernelProvider.kernelsByUri: uri -> {options, kernel}
    kernels,            \* every Kernel constructed so far
    kernelEvents,       \* the kernels constructed and the onDidDisposeKernel events, in order
    lastCall,           \* the last KernelProvider.getOrCreate call and what it returned
    \* ---- JupyterSessionManager: sessions
    manager,            \* one manager: connInfo, serverSettings and the four lab managers
    sessions,           \* every JupyterSession constructed so far
    startCalls,         \* the startNew calls in flight or finished
    disposeCalls,       \* the JupyterSessionManager.dispose calls: idle, waiting or done
    \* ---- JupyterSessionManager: connection settings
    secureServers,      \* the static secureServers: base url -> its promise, a prompt (0: no entry)
    userAllowsInsecureConnections,  \* the global persistent state of that name
    prompts,            \* every insecure-connection warning shown so far, with its response
    managers,           \* the manager instances: where initialize stands in each
    allowUnauthorizedRemoteConnection,  \* the setting of that name
    \* ---- JupyterSessionManager: kernel specs, running kernels and sessions
    kernelspecs,        \* specsManager.specs: whether there are specs, and their names
    specCalls,          \* the getKernelSpecs calls in flight or finished
    running,             \* the last getRunningKernels or getRunningSessions call
    \* ---- JupyterSessionManagerFactory, RemoteKernelFinder
    factoryManagers,    \* the managers JupyterSessionManagerFactory.create made, and which events are hooked
    subscribers,    \* the listeners of the factory-level events, and what each was delivered
    restartSessions,    \* kernel id -> where its restart session stands, and whose it is
    kernelIdsToHide,    \* RemoteKernelFinder.kernelIdsToHide
    listCall,    \* the last RemoteKernelFinder.listKernels call
    \* ---- ServerCache: dispose
    disposed,    \* ServerCache.disposed
    entries,    \* the entries dispose() took out of the cache, and where the disposal of each stands
    shutdownCalls,    \* the ServerCache.dispose calls: idle, waiting or done
    \* ---- DataScienceErrorHandler
    handledErrors,    \* DataScienceErrorHandler.handledErrors
    shown,    \* error -> the messages, prompts and install flows the user was shown for it
    errorCall,    \* the last call of the error handler, and how many there were
    \* ---- NotebookCommunication
    comm,    \* one NotebookCommunication: its controller, its handler, its buffer, its timer
    controllerMessages,    \* every message a controller has sent, with its editor
    received,    \* the messages that came for the editor of comm from its controller of the moment
    delivered,    \* the messages the listener of comm.onDidReceiveMessage was called with
    \* ---- JupyterSessionManager: initialize and startNew
    initialized,    \* manager instance -> the lab managers initialize constructed, and its last startNew call
    \* ---- NotebookIPyWidgetCoordinator
    notebookEditors,    \* notebook.notebookEditors, the notebook editors that exist
    selectedControllers,    \* document -> the controller selected for it (none when there is none)
    messageCoordinators,    \* NotebookIPyWidgetCoordinator.messageCoordinators, document -> whether a coordinator is registered
    notebookCommunications,    \* NotebookIPyWidgetCoordinator.notebookCommunications, editor -> its communication object
    coordinatorCreates,    \* document -> the calls of CommonMessageCoordinator.create since the last selection or close of it
    \* ---- InteractiveWindowProvider
    windows,    \* InteractiveWindowProvider._windows, each window with its owner
    pendingCreations,    \* InteractiveWindowProvider.pendingCreations, the calls whose creation is in progress
    windowProvider,    \* the interactiveWindowMode setting, the memento of the per-file question, lastActiveInteractiveWindow
    windowCalls,    \* the InteractiveWindowProvider.getOrCreate calls in flight or finished
    \* ---- sendTelemetryEvent
    queuedTelemetry,    \* queuedTelemetry, the events waiting to be sent, each with whether it has a promise
    telemetryEvents,    \* event -> whether it was submitted, and its waitBeforeSending promise
    telemetryHandlers,    \* the timer and the finally callback of each sendNextTelemetryItem that waited
    telemetrySent,    \* the events given to sendTelemetryEventInternal, in order
    \* ---- KernelFinder.isValidCachedKernel
    localFiles,    \* the paths for which fs.localFileExists answers true
    storedUri,    \* what serverUriStorage.getUri() returns, a sequence of characters
    validatedKernel,    \* the last isValidCachedKernel call, its kernel, the files at the call and its answer
    \* ---- PlotViewer.exportPlot, saveSvgToPdf
    exportCalls    \* the PlotViewer.exportPlot calls, where each stands, the extension of its file, its write stream and its deferred

cacheVars == <<cache, created, calls>>

kernelVars == <<notebookDocuments, kernelsByNotebook, kernelsByUri, kernels, kernelEvents, lastCall>>

sessionVars == <<manager, sessions, startCalls, disposeCalls>>

trustVars == <<secureServers, userAllowsInsecureConnections, prompts, managers,
               allowUnauthorizedRemoteConnection>>

specVars == <<kernelspecs, specCalls>>

runningVars == <<running>>

finderVars == <<factoryManagers, subscribers, restartSessions, kernelIdsToHide, listCall>>

shutdownVars == <<disposed, entries, shutdownCalls>>

errorVars == <<handledErrors, shown, errorCall>>

commVars == <<comm, controllerMessages, received, delivered>>

initializeVars == <<initialized>>

coordinatorVars == <<notebookEditors, selectedControllers, messageCoordinators, notebookCommunications, coordinatorCreates>>

windowVars == <<windows, pendingCreations, windowProvider, windowCalls>>

telemetryVars == <<queuedTelemetry, telemetryEvents, telemetryHandlers, telemetrySent>>

validationVars == <<localFiles, storedUri, validatedKernel>>

exportVars == <<exportCalls>>

vars == <<cache, created, calls,
          notebookDocuments, kernelsByNotebook, kernelsByUri, kernels, kernelEvents, lastCall,
          manager, sessions, startCalls, disposeCalls,
          secureServers, userAllowsInsecureConnections, prompts, managers,
          allowUnauthorizedRemoteConnection,
          kernelspecs, specCalls, running,
          factoryManagers, subscribers, restartSessions, kernelIdsToHide, listCall,
          disposed, entries, shutdownCalls,
          handledErrors, shown, errorCall,
          comm, controllerMessages, received, delivered,
          initialized,
          notebookEditors, selectedControllers, messageCoordinators, notebookCommunications, coordinatorCreates,
          windows, pendingCreations, windowProvider, windowCalls,
          queuedTelemetry, telemetryEvents, telemetryHandlers, telemetrySent,
          localFiles, storedUri, validatedKernel,
          exportCalls>>

\* What the actions of one component leave alone.
notCacheVars == <<kernelVars, sessionVars, trustVars, specVars, runningVars, finderVars, shutdownVars, errorVars, commVars, initializeVars, coordinatorVars, windowVars, telemetryVars, validationVars, exportVars>>
notKernelVars == <<cacheVars, sessionVars, trustVars, specVars, runningVars, finderVars, shutdownVars, errorVars, commVars, initializeVars, coordinatorVars, windowVars, telemetryVars, validationVars, exportVars>>
notSessionVars == <<cacheVars, kernelVars, trustVars, specVars, runningVars, finderVars, shutdownVars, errorVars, commVars, initializeVars, coordinatorVars, windowVars, telemetryVars, validationVars, exportVars>>
notTrustVars == <<cacheVars, kernelVars, sessionVars, specVars, runningVars, finderVars, shutdownVars, errorVars, commVars, initializeVars, coordinatorVars, windowVars, telemetryVars, validationVars, exportVars>>
notSpecVars == <<cacheVars, kernelVars, trustVars, runningVars, finderVars, shutdownVars, errorVars, commVars, initializeVars, coordinatorVars, windowVars, telemetryVars, validationVars, exportVars>>
notRunningVars == <<cacheVars, kernelVars, sessionVars, trustVars, specVars, finderVars, shutdownVars, errorVars, commVars, initializeVars, coordinatorVars, windowVars, telemetryVars, validationVars, exportVars>>
notFinderVars == <<cacheVars, kernelVars, sessionVars, trustVars, specVars, runningVars, shutdownVars, errorVars, commVars, initializeVars, coordinatorVars, windowVars, telemetryVars, validationVars, exportVars>>
notShutdownVars == <<cacheVars, kernelVars, sessionVars, trustVars, specVars, runningVars, finderVars, errorVars, commVars, initializeVars, coordinatorVars, windowVars, telemetryVars, validationVars, exportVars>>
notCacheShutdownVars == <<kernelVars, sessionVars, trustVars, specVars, runningVars, finderVars, errorVars, commVars, initializeVars, coordinatorVars, windowVars, telemetryVars, validationVars, exportVars>>
notErrorVars == <<cacheVars, kernelVars, sessionVars, trustVars, specVars, runningVars, finderVars, shutdownVars, commVars, initializeVars, coordinatorVars, windowVars, telemetryVars, validationVars, exportVars>>
notErrorTrustVars == <<cacheVars, kernelVars, sessionVars, specVars, runningVars, finderVars, shutdownVars, commVars, initializeVars, coordinatorVars, windowVars, telemetryVars, validationVars, exportVars>>
notCommVars == <<cacheVars, kernelVars, sessionVars, trustVars, specVars, runningVars, finderVars, shutdownVars, errorVars, initializeVars, coordinatorVars, windowVars, telemetryVars, validationVars, exportVars>>
notInitializeVars == <<cacheVars, kernelVars, sessionVars, trustVars, specVars, runningVars, finderVars, shutdownVars, errorVars, commVars, coordinatorVars, windowVars, telemetryVars, validationVars, exportVars>>
notCoordinatorVars == <<cacheVars, kernelVars, sessionVars, trustVars, specVars, runningVars, finderVars, shutdownVars, errorVars, commVars, initializeVars, windowVars, telemetryVars, validationVars, exportVars>>
notWindowVars == <<cacheVars, kernelVars, sessionVars, trustVars, specVars, runningVars, finderVars, shutdownVars, errorVars, commVars, initializeVars, coordinatorVars, telemetryVars, validationVars, exportVars>>
notTelemetryVars == <<cacheVars, kernelVars, sessionVars, trustVars, specVars, runningVars, finderVars, shutdownVars, errorVars, commVars, initializeVars, coordinatorVars, windowVars, validationVars, exportVars>>
notValidationVars == <<cacheVars, kernelVars, sessionVars, trustVars, specVars, runningVars, finderVars, shutdownVars, errorVars, commVars, initializeVars, coordinatorVars, windowVars, telemetryVars, exportVars>>
notExportVars == <<cacheVars, kernelVars, sessionVars, trustVars, specVars, runningVars, finderVars, shutdownVars, errorVars, commVars, initializeVars, coordinatorVars, windowVars, telemetryVars, validationVars>>

----------------------------------------------------------------------------
(***************************************************************************)
(* ServerCache                                                             *)
(***************************************************************************)

\* Number of getOrCreate calls issued in a behaviour.
MaxCalls == 2
\* calculateWorkingDirectory(resource): the directory computed for the one
\* resource of the model.
CalculatedWorkingDir == "w"

\* The INotebookServerOptions the callers pass.  "none" is an absent field.
\* The first two normalise to the same key, the third to another one.
OptionSet ==
    { [uri |-> "u", skipUsingDefaultConfig |-> "none", workingDir |-> "none", localJupyter |-> FALSE],
      [uri |-> "u", skipUsingDefaultConfig |-> "false", workingDir |-> "w", localJupyter |-> FALSE],
      [uri |-> "none", skipUsingDefaultConfig |-> "false", workingDir |-> "w", localJupyter |-> TRUE] }

\* ServerCache.generateDefaultOptions: the working directory is the given one,
\* or else the calculated one; the other fields are copied.
generateDefaultOptions(options) ==
    [uri |-> options.uri,
     skipUsingDefaultConfig |-> options.skipUsingDefaultConfig,
     workingDir |-> IF options.workingDir # "none" THEN options.workingDir
                    ELSE CalculatedWorkingDir,
     localJupyter |-> options.localJupyter]

\* ServerCache.generateKey: uri ('' when absent), useFlag ('true' only for a
\* truthy skipUsingDefaultConfig), local, workingDir.
generateKey(options) ==
    << IF options.uri # "none" THEN options.uri ELSE "",
       IF options.skipUsingDefaultConfig = "true" THEN "true" ELSE "false",
       options.localJupyter,
       options.workingDir >>

KeyOf(options) == generateKey(generateDefaultOptions(options))

KeySet == { KeyOf(o) : o \in OptionSet }

CallIds == 1..MaxCalls

\* Number of Kernel objects constructed in a behaviour.
MaxKernels == 3

\* The document identities (uris), the notebook type of the document of each,
\* and the ids of the kernel connection metadata.
Uris == {"d1", "d2"}
InteractiveWindowView == "interactive"
NotebookType(uri) == IF uri = "d2" THEN InteractiveWindowView ELSE "jupyter-notebook"
MetadataIds == {"m1", "m2"}

\* KernelOptions: the metadata (its id) and the resource uri.
KernelOptionSet == [metadataId : MetadataIds, resourceUri : {"res"}]

NoKernelInfo == [metadataId |-> "none", kernel |-> 0]

InitKernel ==
    /\ notebookDocuments = {}
    /\ kernelsByNotebook = [u \in Uris |-> NoKernelInfo]
    /\ kernelsByUri = [u \in Uris |-> NoKernelInfo]
    /\ kernels = << >>
    /\ kernelEvents = << >>
    /\ lastCall = [uri |-> "none", metadataId |-> "none", kernel |-> 0, flip |-> FALSE]

\* The options and the key of a call that holds none.
NoOptions ==
    [uri |-> "none", skipUsingDefaultConfig |-> "none", workingDir |-> "none", localJupyter |-> FALSE]

NoKey == <<"none", "none", FALSE, "none">>

\* A call: where it stands, the options it was given (until the lookup), the
\* key and the IServerData it holds (after the lookup) and what it returned.
\* Three history fields: creator (the call invoked createFunction), early (a
\* promise of the call's key settled while the call was waiting for its
\* options) and stale (the entry the call found held a disposed server).
NoCall == [pc |-> "idle", options |-> NoOptions, key |-> NoKey, data |-> 0,
           result |-> "pending", creator |-> FALSE, early |-> FALSE, stale |-> FALSE]

InitCache ==
    /\ cache = [k \in KeySet |-> 0]
    /\ created = << >>
    /\ calls = [i \in CallIds |-> NoCall]

\* Number of startNew calls and of dispose calls issued in a behaviour.
MaxStartCalls == 2
MaxDisposeCalls == 2

StartCallIds == 1..MaxStartCalls
DisposeCallIds == 1..MaxDisposeCalls

\* A manager before initialize: nothing is set (lines 47-52).  The last two
\* fields count the dispose() calls the lab's ContentsManager and
\* SessionManager objects have received.
NewManager ==
    [connInfo |-> FALSE, serverSettings |-> FALSE, specsManager |-> FALSE,
     kernelManager |-> FALSE, sessionManager |-> FALSE, contentsManager |-> FALSE,
     contentsDisposed |-> 0, sessionManagerDisposed |-> 0,
     initialize |-> "none", ready |-> "none"]

\* A startNew call: where it stands, the session it constructed (0: none),
\* how connect ended, what it gave its caller ("session" or an error) and, for a session, the
\* state the session was in when it was handed over.
NoStartCall == [pc |-> "idle", session |-> 0, connect |-> "pending", result |-> "pending",
                tornDown |-> FALSE, handedConnected |-> FALSE, handedDisposed |-> FALSE]

InitSession ==
    /\ manager = NewManager
    /\ sessions = << >>
    /\ startCalls = [i \in StartCallIds |-> NoStartCall]
    /\ disposeCalls = [j \in DisposeCallIds |-> "idle"]

\* Number of JupyterSessionManager instances that initialize in a behaviour.
MaxManagers == 2

ManagerIds == 1..MaxManagers

\* The server URIs the user may have entered: a protocol, a host (with its
\* port), a path and a token query parameter ("absent": no such parameter).
\* No host has "lab" in its name.
UriSet ==
    { [protocol |-> "http:",  host |-> "hostA",    pathname |-> "/",         token |-> "absent"],
      [protocol |-> "http:",  host |-> "hostA",    pathname |-> "/lab",      token |-> "absent"],
      [protocol |-> "http:",  host |-> "hostA",    pathname |-> "/jupyter/", token |-> "absent"],
      [protocol |-> "http:",  host |-> "hostA",    pathname |-> "/",         token |-> ""],
      [protocol |-> "http:",  host |-> "hostA",    pathname |-> "/",         token |-> "tok"],
      [protocol |-> "https:", host |-> "hostB",    pathname |-> "/",         token |-> "absent"],
      [protocol |-> "http:",  host |-> "provided", pathname |-> "/",         token |-> "absent"] }

NoServerUri == [baseUrl |-> << >>, token |-> "undefined"]

\* getJupyterServerUri: the server of a URI that a server provider handed out.
getJupyterServerUri(uri) ==
    IF uri.host = "provided"
    THEN [baseUrl |-> <<"http:", "hostC", "/">>, token |-> ""]
    ELSE NoServerUri

\* `${url.searchParams.get('token')}`: the string 'null' when the URI has no
\* token parameter, the parameter's value when it has one.
SearchParamToken(uri) == IF uri.token = "absent" THEN "null" ELSE uri.token

\* createRemoteConnectionInfo: a trailing /lab is cut off; the base url is
\* protocol, host and path; a URI of a provider takes base url and token from
\* the provider and has an authorization header accessor.
createRemoteConnectionInfo(uri) ==
    LET url == IF uri.pathname = "/lab" THEN [uri EXCEPT !.pathname = "/"] ELSE uri
        serverUri == getJupyterServerUri(url)
    IN  IF serverUri # NoServerUri
        THEN [baseUrl |-> serverUri.baseUrl, token |-> serverUri.token,
              hostName |-> serverUri.baseUrl[2], localLaunch |-> FALSE,
              getAuthHeader |-> TRUE]
        ELSE [baseUrl |-> <<url.protocol, url.host, url.pathname>>,
              token |-> SearchParamToken(url),
              hostName |-> url.host, localLaunch |-> FALSE,
              getAuthHeader |-> FALSE]

\* The connection to a server that the extension launched itself.
LocalConnection ==
    [baseUrl |-> <<"http:", "localhost", "/">>, token |-> "null",
     hostName |-> "localhost", localLaunch |-> TRUE, getAuthHeader |-> FALSE]

Connections == {createRemoteConnectionInfo(uri) : uri \in UriSet} \cup {LocalConnection}

BaseUrls == {connInfo.baseUrl : connInfo \in Connections}

\* The labels of the warning, and no choice at all.
Responses == {"Yes", "No", "DoNotShowAgain", "dismissed"}

\* A manager instance before initialize.  promise is the prompt whose promise
\* secureConnectionCheck awaits (0: none); optedIn and hadDecision record what
\* the check found: the global opt-in, and a prompt shown for the host before.
\* passwordRequests counts the calls of the password callback and pwSettings
\* is what it yielded; agentRelaxed
\* tells whether the settings carry an agent that accepts any certificate;
\* selfCert is the answer to the self-signed-certificate message of a connect
\* that failed on the server's certificate.
NewTrustManager ==
    [pc |-> "new", connInfo |-> LocalConnection, failOnPassword |-> FALSE,
     promise |-> 0, optedIn |-> FALSE, hadDecision |-> FALSE,
     serverSettings |-> FALSE, error |-> "none",
     passwordRequests |-> 0, pwSettings |-> "none",
     agentRelaxed |-> FALSE, selfCert |-> "none"]

InitTrust ==
    /\ secureServers = [baseUrl \in BaseUrls |-> 0]
    /\ userAllowsInsecureConnections = FALSE
    /\ prompts = << >>
    /\ managers = [m \in ManagerIds |-> NewTrustManager]
    /\ allowUnauthorizedRemoteConnection = FALSE

\* Number of getKernelSpecs calls issued in a behaviour.
MaxSpecCalls == 1

SpecCallIds == 1..MaxSpecCalls

\* The kernel spec names a server may report.
SpecNames == {"python3", "ir"}

\* A getKernelSpecs call: where it stands, oldKernelSpecs, whether its
\* refreshSpecs ever settles, how its refresh ended and with which names,
\* and what it gave its caller: "specs" (one JupyterKernelSpec per name in
\* specs), "default" (the one interpreter spec), "empty" ([]) or an error.
NoSpecCall ==
    [pc |-> "idle", old |-> {}, refresh |-> "none", refreshed |-> "none",
     reported |-> {}, result |-> "pending", specs |-> {}]

InitSpecs ==
    /\ kernelspecs = [specs |-> FALSE, names |-> {}]
    /\ specCalls = [c \in SpecCallIds |-> NoSpecCall]

\* Longest list of running kernels or sessions a server reports.
MaxModels == 3

KernelIds == {"a", "b"}

\* The kernel models of KernelAPI.listRunning: an id, and a name that tells
\* two models with one id apart.
KernelModels == [id : KernelIds, name : {"x", "y"}]

\* The session models of SessionManager.running(): the session ids differ,
\* the kernels need not.
SessionModels == [id : {"s1", "s2", "s3"}, kernelId : KernelIds]

NoRunning == [call |-> "none", models |-> << >>, result |-> << >>]

InitRunning == running = NoRunning

\* Number of managers JupyterSessionManagerFactory.create makes in a behaviour.
MaxFactoryManagers == 2

FactoryManagerIds == 1..MaxFactoryManagers

\* Longest list of running sessions a server reports to listKernels.
MaxListed == 2

\* The client id of the one connection to kernel k.
clientId(k) == IF k = "a" THEN "client-a" ELSE "client-b"

\* The kernel connections of restart sessions (Kernel.IKernelConnection): the
\* id of the kernel and the client id of the connection.
KernelConnections == { [id |-> k, clientId |-> clientId(k)] : k \in KernelIds }

\* The two restart-session events.
EventKinds == {"created", "used"}

\* The consumers of the factory-level events other than the kernel finder.
SubscriberIds == {"s1"}

\* A manager of the factory: where create stands, and which of its events
\* are bound to the factory-level events.
NoFactoryManager == [pc |-> "idle", hooked |-> {}]

\* A consumer: the events it listens to, those it subscribed to while the
\* factory had created no manager, and what its listeners were called with.
NoSubscriber == [events |-> {}, early |-> {}, log |-> << >>]

\* The restart session of a kernel: "none", "created" or "used", and the
\* manager whose session it is.
NoRestartSession == [state |-> "none", manager |-> 0]

\* A listKernels call: where it stands, which request failed, the results of
\* the three queries, the items, and how it ended ("returned" or "threw").
NoListCall ==
    [pc |-> "idle", failure |-> "none", running |-> << >>, specs |-> {},
     sessions |-> << >>, items |-> << >>, outcome |-> "pending"]

\* The kernel finder is constructed, and subscribes, with the factory: before
\* any manager exists.
InitFinder ==
    /\ factoryManagers = [m \in FactoryManagerIds |-> NoFactoryManager]
    /\ subscribers = [s \in SubscriberIds |-> NoSubscriber]
    /\ restartSessions = [k \in KernelIds |-> NoRestartSession]
    /\ kernelIdsToHide = {}
    /\ listCall = NoListCall

\* Number of ServerCache.dispose calls issued in a behaviour.
MaxShutdownCalls == 2

ShutdownCallIds == 1..MaxShutdownCalls

\* A ServerCache.dispose call: where it stands, and whether it was the one
\* that found the cache not disposed.
NoShutdownCall == [pc |-> "idle", first |-> FALSE]

InitShutdown ==
    /\ disposed = FALSE
    /\ entries = << >>
    /\ shutdownCalls = [d \in ShutdownCallIds |-> NoShutdownCall]

\* Number of error handler calls issued in a behaviour.
MaxErrorCalls == 2

\* The error classes the handler tells apart; "Error" is any other error.
ErrorKinds ==
    {"JupyterKernelDependencyError", "JupyterInstallError", "JupyterSelfCertsError",
     "CancellationError", "VscCancellationError", "KernelConnectionTimeoutError",
     "KernelDiedError", "KernelDeadError", "Error"}

\* The error instances: one per class, two for JupyterKernelDependencyError
\* (reason uiHidden and reason cancel).  reason is "none" for the other
\* classes.
BaseErrors ==
    { [kind |-> k, reason |-> "none", wrapped |-> FALSE] :
        k \in ErrorKinds \ {"JupyterKernelDependencyError"} }
    \cup { [kind |-> "JupyterKernelDependencyError", reason |-> r, wrapped |-> FALSE] :
             r \in {"uiHidden", "cancel"} }

\* What callers pass: an error, or a WrappedError around it.
Errors == BaseErrors \cup { [e EXCEPT !.wrapped = TRUE] : e \in BaseErrors }

\* A call of the handler: how many calls there were, the function, where it
\* stands, the unwrapped error, whether it came wrapped, the context, the
\* install response, what the call returned, the messages and install flows
\* it started, and the self-signed-certificate prompt it opened.
NoErrorCall ==
    [n |-> 0, fn |-> "none", pc |-> "idle",
     err |-> [kind |-> "Error", reason |-> "none", wrapped |-> FALSE],
     wrapped |-> FALSE, context |-> "none", response |-> "none", result |-> "pending",
     messages |-> 0, installs |-> 0, prompt |-> "none"]

InitErrors ==
    /\ handledErrors = {}
    /\ shown = [e \in BaseErrors |-> 0]
    /\ errorCall = NoErrorCall

\* Number of messages the controllers send in a behaviour.
MaxMessages == 3

\* The notebook controllers, and the editors they send messages for: the
\* editor of the communication and another one.
Controllers == {"A", "B"}

Editors == {"own", "other"}

\* The NotebookCommunication after its constructor, which calls
\* changeController(controller): the controller, the controller whose
\* onDidReceiveMessage the live handler is registered with, the flag, the
\* buffer, whether the timeout of the getter is still to fire, and whether
\* dispose() was called.
NewNotebookCommunication(controller) ==
    [controller |-> controller, handler |-> controller, eventHandlerListening |-> FALSE,
     pendingMessages |-> << >>, timer |-> FALSE, disposed |-> FALSE]

InitComm ==
    /\ comm = NewNotebookCommunication("A")
    /\ controllerMessages = << >>
    /\ received = << >>
    /\ delivered = << >>

\* What initialize has constructed in a manager instance and how the last
\* startNew call on it ended: labManagers tells whether the specs, kernel,
\* session and contents managers are set (lines 115-121); startNew is "none"
\* before any call; afterFailure tells whether that call was made after
\* initialize had failed.
NotInitialized == [labManagers |-> FALSE, startNew |-> "none", afterFailure |-> FALSE]

InitInitialize ==
    initialized = [m \in ManagerIds |-> NotInitialized]

\* The notebook documents, and the document each notebook editor shows: the
\* first two editors are a split of one document.
Documents == {"nbA", "nbB"}

EditorDocuments == <<"nbA", "nbA", "nbB">>

EditorIds == DOMAIN EditorDocuments

\* No communication object for an editor.
NoComm == [controller |-> "none", disposed |-> FALSE]

InitCoordinator ==
    /\ notebookEditors = {}
    /\ selectedControllers = [document \in Documents |-> "none"]
    /\ messageCoordinators = [document \in Documents |-> FALSE]
    /\ notebookCommunications = [editor \in EditorIds |-> NoComm]
    /\ coordinatorCreates = [document \in Documents |-> 0]

\* Number of InteractiveWindowProvider.getOrCreate calls issued in a behaviour.
MaxWindowCalls == 2

WindowCallIds == 1..MaxWindowCalls

\* The resources getOrCreate is called with: two files, and none.
Resources == {"none", "f1", "f2"}

InteractiveWindowModes == {"single", "multiple", "perFile"}

\* A getOrCreate call: its resource, the mode getInteractiveMode gave it, the
\* window it returned (0: none), whether it constructed that window,
\* whether it rejected, and whether it was made while an earlier call was
\* under way.
NoWindowCall ==
    [pc |-> "idle", resource |-> "none", mode |-> "none", result |-> 0,
     constructed |-> FALSE, rejected |-> FALSE, overlapping |-> FALSE]

InitWindow ==
    /\ windows = << >>
    /\ pendingCreations = {}
    /\ windowProvider = [mode |-> "multiple", asked |-> FALSE, lastActive |-> 0]
    /\ windowCalls = [i \in WindowCallIds |-> NoWindowCall]

\* Number of sendTelemetryEvent calls in a behaviour.
MaxEvents == 2

\* The events, numbered in the order of their submission.
TelemetryEvents == 1..MaxEvents

\* An event before its submission.  wait is the state of its
\* waitBeforeSending promise: "none" without one, else "pending" or "settled".
NotSubmitted == [submitted |-> FALSE, wait |-> "none"]

InitTelemetry ==
    /\ queuedTelemetry = << >>
    /\ telemetryEvents = [e \in TelemetryEvents |-> NotSubmitted]
    /\ telemetryHandlers = << >>
    /\ telemetrySent = << >>

\* The paths a cached kernel may name: a kernel spec file and an interpreter.
SpecFile == "kernel.json"
InterpreterPath == "python"
LocalPaths == {SpecFile, InterpreterPath}

\* Server URIs and base URLs, as sequences of characters.
ServerUris == {<<"a">>, <<"a", "b">>}
CachedBaseUrls == {<<"a">>, <<"b">>, <<"a", "b">>}

\* The cached kernels: the remote kinds with a base URL, a Python interpreter
\* kernel with its interpreter, a local kernel spec with or without a spec
\* file and with or without an interpreter ("" and << >> for a field the
\* kernel does not have).
CachedKernels ==
    [kind : {"startUsingRemoteKernelSpec", "connectToLiveRemoteKernel"},
     baseUrl : CachedBaseUrls, specFile : {""}, interpreter : {""}]
    \cup [kind : {"startUsingPythonInterpreter"},
          baseUrl : {<< >>}, specFile : {""}, interpreter : {InterpreterPath}]
    \cup [kind : {"startUsingLocalKernelSpec"},
          baseUrl : {<< >>}, specFile : {"", SpecFile}, interpreter : {"", InterpreterPath}]

NoValidation ==
    [kernel |-> [kind |-> "startUsingPythonInterpreter", baseUrl |-> << >>,
                 specFile |-> "", interpreter |-> InterpreterPath],
     files |-> {},
     result |-> "none"]

InitValidation ==
    /\ localFiles = LocalPaths
    /\ storedUri = <<"a">>
    /\ validatedKernel = NoValidation

\* Number of exportPlot calls in a behaviour.
MaxExportCalls == 2
ExportCallIds == 1..MaxExportCalls

\* What the save dialog gives: no file, or a file with one of the extensions
\* of the filters.
SaveDialogAnswers == {"none", ".pdf", ".png", ".svg"}

\* An exportPlot call that has not been made.  ws is the write stream of
\* saveSvgToPdf and deferred its createDeferred<void>(), "none" while
\* saveSvgToPdf has not run.
NoExportCall ==
    [pc |-> "idle", ext |-> "none", ws |-> "none", deferred |-> "none", outcome |-> "none"]

InitExport ==
    exportCalls = [i \in ExportCallIds |-> NoExportCall]

Init == InitCache /\ InitKernel /\ InitSession /\ InitTrust /\ InitSpecs /\ InitRunning /\ InitFinder /\ InitShutdown /\ InitErrors /\ InitComm /\ InitInitialize /\ InitCoordinator /\ InitWindow /\ InitTelemetry /\ InitValidation /\ InitExport

\* Whether the server of creation c has had dispose() called on it.
ServerDisposed(c) == created[c].disposed

\* getOrCreate up to its first await (line 44): the call is issued and waits
\* for generateDefaultOptions.  Calls are issued in index order.
GetOrCreateStart(i, o) ==
    /\ calls[i].pc = "idle"
    /\ \A j \in CallIds : j < i => calls[j].pc # "idle"
    /\ calls' = [calls EXCEPT ![i] = [NoCall EXCEPT !.pc = "options", !.options = o]]
    /\ UNCHANGED <<cache, created, notCacheVars>>

\* A mutant of the lookup: the cache is not consulted.
CachedDataIgnoringCache(key) == 0

\* this.cache.get(key) (line 49).
CachedData(key) == cache[key]

\* The IServerData a new creation starts with (lines 53-57), with the state of
\* its promise and of the server it resolves to.
NewData(key) ==
    [key |-> key, state |-> "pending", resolved |-> FALSE,
     wrapped |-> FALSE, disposed |-> FALSE]

\* getOrCreate from line 45 to the registration of the handlers (line 61):
\* the key, the lookup, and, when there is no entry, the creation and the
\* insert, with no suspension point in between.
GetOrCreateLookup(i) ==
    /\ calls[i].pc = "options"
    /\ LET key == KeyOf(calls[i].options)
           found == CachedData(key)
           data == IF found = 0 THEN Len(created) + 1 ELSE found
       IN /\ created' = IF found = 0
                        THEN Append(created, NewData(key))
                        ELSE created
          /\ cache' = IF found = 0 THEN [cache EXCEPT ![key] = data] ELSE cache
          /\ calls' = [calls EXCEPT ![i] =
                          [@ EXCEPT !.pc = "attached", !.options = NoOptions, !.key = key,
                                    !.data = data, !.creator = (found = 0),
                                    !.stale = (found # 0 /\ ServerDisposed(found))]]
    /\ UNCHANGED notCacheVars

\* The promise createFunction returned settles: with a server, with undefined,
\* or it rejects.
Settle(c, outcome) ==
    /\ c \in 1..Len(created)
    /\ created[c].state = "pending"
    /\ created' = [created EXCEPT ![c] = [@ EXCEPT !.state = outcome]]
    /\ calls' = [i \in CallIds |->
                    IF calls[i].pc = "options" /\ KeyOf(calls[i].options) = created[c].key
                    THEN [calls[i] EXCEPT !.early = TRUE]
                    ELSE calls[i]]
    /\ UNCHANGED <<cache, notCacheVars>>

\* A mutant of the eviction: the handlers leave the entry in the cache.
EvictKeeping(key) == cache

\* this.cache.delete(key) (lines 64, 72, 84).
Evict(key) == [cache EXCEPT ![key] = 0]

\* The handlers of one call (lines 62-86), run once the promise has settled.
GetOrCreateHandlers(i) ==
    /\ calls[i].pc = "attached"
    /\ LET c == calls[i].data
           key == calls[i].key
       IN /\ created[c].state # "pending"
          /\ CASE created[c].state = "none" ->
                    /\ cache' = Evict(key)
                    /\ created' = created
                    /\ calls' = [calls EXCEPT ![i] = [@ EXCEPT !.pc = "done", !.result = "undefined"]]
               [] created[c].state = "server" ->
                    /\ cache' = cache
                    /\ created' = [created EXCEPT ![c] = [@ EXCEPT !.wrapped = TRUE, !.resolved = TRUE]]
                    /\ calls' = [calls EXCEPT ![i] = [@ EXCEPT !.pc = "done", !.result = "server"]]
               [] OTHER ->
                    /\ cache' = Evict(key)
                    /\ created' = created
                    /\ calls' = [calls EXCEPT ![i] = [@ EXCEPT !.pc = "done", !.result = "error"]]
    /\ UNCHANGED notCacheVars

\* A mutant of the wrapped dispose: the server is disposed and its entry stays.
ServerDisposeKeepingEntry(c) ==
    /\ c \in 1..Len(created)
    /\ \E i \in CallIds : calls[i].pc = "done" /\ calls[i].result = "server" /\ calls[i].data = c
    /\ created' = [created EXCEPT ![c] = [@ EXCEPT !.disposed = TRUE]]
    /\ UNCHANGED <<cache, calls, notCacheVars>>

\* A caller that was handed the server of creation c calls its dispose(), for
\* the first time or again: the wrapper of lines 71-74 evicts the key and
\* calls the server's own dispose.
ServerDispose(c) ==
    /\ c \in 1..Len(created)
    /\ \E i \in CallIds : calls[i].pc = "done" /\ calls[i].result = "server" /\ calls[i].data = c
    /\ cache' = IF created[c].wrapped THEN Evict(created[c].key) ELSE cache
    /\ created' = [created EXCEPT ![c] = [@ EXCEPT !.disposed = TRUE]]
    /\ UNCHANGED <<calls, notCacheVars>>

\* ServerCache.get after its await (lines 91-94): the index of the entry whose
\* promise it returns, 0 when it returns undefined.
get(options) ==
    LET key == KeyOf(options)
    IN IF cache[key] # 0 THEN cache[key] ELSE 0

NextCache ==
    \/ \E i \in CallIds, o \in OptionSet : GetOrCreateStart(i, o)
    \/ \E i \in CallIds : GetOrCreateLookup(i)
    \/ \E c \in 1..Len(created), outcome \in {"server", "none", "rejected"} : Settle(c, outcome)
    \/ \E i \in CallIds : GetOrCreateHandlers(i)
    \/ \E c \in 1..Len(created) : ServerDispose(c)

SpecCache == Init /\ [][NextCache]_vars

----------------------------------------------------------------------------
(***************************************************************************)
(* KernelProvider                                                          *)
(***************************************************************************)

\* The state the provider's operations work on, as one value.
KernelState ==
    [kernels |-> kernels, byNotebook |-> kernelsByNotebook, byUri |-> kernelsByUri,
     events |-> kernelEvents]

\* BaseKernelProvider.getInternal: the {options, kernel} recorded for the
\* identity, in S.
getInternalIn(S, uri) ==
    IF S.byNotebook[uri] # NoKernelInfo THEN S.byNotebook[uri] ELSE S.byUri[uri]

getInternal(uri) == getInternalIn(KernelState, uri)

\* BaseKernelProvider.get.
get_kernel(uri) == getInternal(uri).kernel

\* Kernel.dispose on kernel k in S: the kernel is disposed and fires its
\* disposed event once.  Two handlers listen: the one getOrCreate registered
\* (line 54), which fires onDidDisposeKernel, and the one of
\* deleteMappingIfKernelIsDisposed, which removes the identity's mapping if it
\* still holds this kernel.
KernelDisposeIn(S, k) ==
    IF S.kernels[k].disposed THEN S
    ELSE LET uri == S.kernels[k].uri
         IN [kernels |-> [S.kernels EXCEPT ![k] = [@ EXCEPT !.disposed = TRUE]],
             events |-> Append(S.events, <<"disposed", k>>),
             byNotebook |-> IF S.byNotebook[uri].kernel = k
                            THEN [S.byNotebook EXCEPT ![uri] = NoKernelInfo]
                            ELSE S.byNotebook,
             byUri |-> IF S.byUri[uri].kernel = k
                       THEN [S.byUri EXCEPT ![uri] = NoKernelInfo]
                       ELSE S.byUri]

\* BaseKernelProvider.disposeOldKernel: the kernel recorded for the identity,
\* if any, is disposed and its mapping removed.
disposeOldKernel(S, uri) ==
    LET info == getInternalIn(S, uri)
    IN IF info = NoKernelInfo THEN S
       ELSE LET T == KernelDisposeIn(S, info.kernel)
            IN [T EXCEPT !.byNotebook = [@ EXCEPT ![uri] = NoKernelInfo],
                         !.byUri = [@ EXCEPT ![uri] = NoKernelInfo]]

\* A mutant of the reuse test: any recorded kernel is reused.
ReusesExistingAnyId(existingKernelInfo, options) ==
    existingKernelInfo # NoKernelInfo

\* A mutant of the reuse test: no kernel is ever reused.
ReusesExistingNever(existingKernelInfo, options) == FALSE

\* The test of line 33: there is a kernel for the identity and its metadata
\* id is the requested one.
ReusesExisting(existingKernelInfo, options) ==
    /\ existingKernelInfo # NoKernelInfo
    /\ existingKernelInfo.metadataId = options.metadataId

\* A mutant of line 36: the old kernel is left alone.
OldKernelKept(S, uri) == S

\* Line 36: this.disposeOldKernel(uri).
OldKernelDisposed(S, uri) == disposeOldKernel(S, uri)

\* Lines 38-52: the Kernel constructed for the identity.
NewKernel(uri, options) ==
    [uri |-> uri,
     resourceUri |-> IF uri \in notebookDocuments /\ NotebookType(uri) = InteractiveWindowView
                     THEN options.resourceUri ELSE uri,
     metadataId |-> options.metadataId,
     disposed |-> FALSE]

\* Lines 62-66: the new kernel is recorded for the notebook document of the
\* uri when one is open, and else for the uri.
Recorded(S, uri, info) ==
    IF uri \in notebookDocuments
    THEN [S EXCEPT !.byNotebook = [@ EXCEPT ![uri] = info]]
    ELSE [S EXCEPT !.byUri = [@ EXCEPT ![uri] = info]]

\* KernelProvider.getOrCreate, a synchronous function: one step.
GetOrCreate(uri, options) ==
    LET existingKernelInfo == getInternal(uri)
    IN /\ UNCHANGED notKernelVars
       /\ IF ReusesExisting(existingKernelInfo, options)
          THEN /\ lastCall' = [uri |-> uri, metadataId |-> options.metadataId,
                               kernel |-> existingKernelInfo.kernel, flip |-> ~lastCall.flip]
               /\ UNCHANGED <<notebookDocuments, kernelsByNotebook, kernelsByUri, kernels, kernelEvents>>
          ELSE /\ Len(kernels) < MaxKernels
               /\ LET S1 == OldKernelDisposed(KernelState, uri)
                      k == Len(S1.kernels) + 1
                      S2 == [S1 EXCEPT !.kernels = Append(@, NewKernel(uri, options)),
                                       !.events = Append(@, <<"created", k>>)]
                      S3 == Recorded(S2, uri, [metadataId |-> options.metadataId, kernel |-> k])
                  IN /\ kernels' = S3.kernels
                     /\ kernelsByNotebook' = S3.byNotebook
                     /\ kernelsByUri' = S3.byUri
                     /\ kernelEvents' = S3.events
                     /\ lastCall' = [uri |-> uri, metadataId |-> options.metadataId,
                                     kernel |-> k, flip |-> ~lastCall.flip]
               /\ UNCHANGED notebookDocuments

\* Somebody else disposes a kernel (the user closes it, the extension shuts
\* down).
KernelDispose(k) ==
    /\ k \in 1..Len(kernels)
    /\ ~kernels[k].disposed
    /\ LET S == KernelDisposeIn(KernelState, k)
       IN /\ kernels' = S.kernels
          /\ kernelsByNotebook' = S.byNotebook
          /\ kernelsByUri' = S.byUri
          /\ kernelEvents' = S.events
    /\ UNCHANGED <<notebookDocuments, lastCall, notKernelVars>>

\* A notebook document is opened for the uri.
OpenNotebook(uri) ==
    /\ uri \notin notebookDocuments
    /\ notebookDocuments' = notebookDocuments \cup {uri}
    /\ UNCHANGED <<kernelsByNotebook, kernelsByUri, kernels, kernelEvents, lastCall, notKernelVars>>

NextKernel ==
    \/ \E uri \in Uris, options \in KernelOptionSet : GetOrCreate(uri, options)
    \/ \E k \in 1..Len(kernels) : KernelDispose(k)
    \/ \E uri \in Uris : OpenNotebook(uri)

SpecKernel == Init /\ [][NextKernel]_vars

----------------------------------------------------------------------------
(***************************************************************************)
(* JupyterSessionManager: startNew                                         *)
(***************************************************************************)

\* JupyterSessionManager.initialize up to its await (lines 112-114):
\* connInfo is set and getServerConnectSettings is under way.
Initialize ==
    /\ manager.initialize = "none"
    /\ manager' = [manager EXCEPT !.connInfo = TRUE, !.initialize = "pending"]
    /\ UNCHANGED <<sessions, startCalls, disposeCalls, notSessionVars>>

\* initialize after getServerConnectSettings (lines 114-121): when that
\* failed nothing more is set; when it succeeded the settings and the four
\* managers are.  ready tells whether the ready promise of the new session
\* manager ever settles.
Initialized(ok, ready) ==
    /\ manager.initialize = "pending"
    /\ manager' = IF ok
                  THEN [manager EXCEPT !.initialize = "succeeded", !.serverSettings = TRUE,
                                       !.specsManager = TRUE, !.kernelManager = TRUE,
                                       !.sessionManager = TRUE, !.contentsManager = TRUE,
                                       !.ready = ready]
                  ELSE [manager EXCEPT !.initialize = "failed"]
    /\ UNCHANGED <<sessions, startCalls, disposeCalls, notSessionVars>>

\* A mutant of the waits: no sleep(10_000) in the race.
RaceSettlesWhenReady(ready) == ready = "settles"

\* Promise.race([sleep(10_000), ready]) (lines 99, 224): it settles in any
\* case, after ten seconds at the latest.
RaceSettles(ready) == TRUE

\* A mutant of the catch of dispose: the exception is thrown again.
DisposeOutcomeRethrown(threw) == IF threw THEN "rejected" ELSE "done"

\* How dispose ends (lines 105-109): an exception is caught and logged, and
\* the call resolves.
DisposeOutcome(threw) == IF threw THEN "doneLogged" ELSE "done"

\* JupyterSessionManager.dispose up to its await (lines 88-99): the contents
\* manager is disposed and forgotten; with a session manager that is not
\* disposed, the call waits for its readiness, for ten seconds at most.
\* When contentsManager.dispose() throws, nothing is forgotten and nothing
\* more is done.
Dispose(j, throws) ==
    /\ disposeCalls[j] = "idle"
    /\ \A h \in DisposeCallIds : h < j => disposeCalls[h] # "idle"
    /\ throws => manager.contentsManager
    /\ manager' = IF manager.contentsManager /\ ~throws
                  THEN [manager EXCEPT !.contentsManager = FALSE, !.contentsDisposed = @ + 1]
                  ELSE manager
    /\ disposeCalls' = [disposeCalls EXCEPT ![j] =
                           IF throws
                           THEN DisposeOutcome(TRUE)
                           ELSE IF manager.sessionManager /\ manager.sessionManagerDisposed = 0
                                THEN "waiting" ELSE DisposeOutcome(FALSE)]
    /\ UNCHANGED <<sessions, startCalls, notSessionVars>>

\* A mutant of the call at line 102: it reaches a session manager also after
\* another dispose call has forgotten it.
StillSetAlways(m) == TRUE

\* this.sessionManager at line 102, after the await: the call
\* this.sessionManager.dispose() reaches a session manager only while the
\* field is still set.
StillSet(m) == m.sessionManager

\* dispose after the await (lines 99-109).  The wait ends with the ready
\* promise or the sleep ("resumed"), or the ready promise rejects
\* ("rejected").  After a wait that resumed the session manager is disposed
\* and forgotten; when another dispose call has forgotten it meanwhile,
\* this.sessionManager.dispose() throws, and so it may of itself
\* ("disposeThrows").  Every exception is caught.
DisposeFinish(j, outcome) ==
    /\ disposeCalls[j] = "waiting"
    /\ RaceSettles(manager.ready)
    /\ outcome = "rejected" => manager.ready = "settles"
    /\ outcome = "disposeThrows" => manager.sessionManager
    /\ manager' = IF outcome = "resumed" /\ StillSet(manager)
                  THEN [manager EXCEPT !.sessionManager = FALSE, !.sessionManagerDisposed = @ + 1]
                  ELSE manager
    /\ disposeCalls' = [disposeCalls EXCEPT ![j] =
                           DisposeOutcome(~(outcome = "resumed" /\ StillSet(manager)))]
    /\ UNCHANGED <<sessions, startCalls, notSessionVars>>

\* The manager counts as torn down: initialize has not succeeded, or a
\* dispose call has completed.
TornDown ==
    \/ manager.initialize # "succeeded"
    \/ \E j \in DisposeCallIds : disposeCalls[j] \in {"done", "doneLogged", "rejected"}

\* The guard of startNew (lines 175-183).
CanStartNew ==
    /\ manager.connInfo /\ manager.sessionManager /\ manager.contentsManager
    /\ manager.serverSettings /\ manager.specsManager

\* new JupyterSession (lines 185-200): not connected, not disposed.
NewSession == [isConnected |-> FALSE, disposed |-> FALSE]

\* startNew up to its first await (lines 175-202): the guard, the new session,
\* the call of connect.
StartNew(i) ==
    /\ startCalls[i].pc = "idle"
    /\ \A j \in StartCallIds : j < i => startCalls[j].pc # "idle"
    /\ IF CanStartNew
       THEN /\ sessions' = Append(sessions, NewSession)
            /\ startCalls' = [startCalls EXCEPT ![i] =
                                 [@ EXCEPT !.pc = "connecting", !.session = Len(sessions) + 1,
                                           !.tornDown = TornDown]]
       ELSE /\ sessions' = sessions
            /\ startCalls' = [startCalls EXCEPT ![i] =
                                 [@ EXCEPT !.pc = "failed", !.result = "SessionDisposedError",
                                           !.tornDown = TornDown]]
    /\ UNCHANGED <<manager, disposeCalls, notSessionVars>>

\* JupyterSession.connect settles: it leaves the session connected, or it
\* fails, and then the session is not connected and has disposed itself or
\* has not.
ConnectOutcome(session, outcome) ==
    CASE outcome = "connected" -> [session EXCEPT !.isConnected = TRUE]
      [] outcome = "failedDisposed" -> [session EXCEPT !.disposed = TRUE]
      [] OTHER -> session

\* JupyterSession.dispose: idempotent.
SessionDisposed(session) == [session EXCEPT !.isConnected = FALSE, !.disposed = TRUE]

\* A mutant of the finally block: no session is disposed.
FinallyDisposesNever(session) == FALSE

\* The test of the finally block of startNew (line 204).
FinallyDisposes(session) == ~session.isConnected

\* startNew from the end of connect to the next await (lines 202-208).  A
\* session that is not connected is disposed in the finally block, and the
\* call waits for that; else the session is returned (after a connect that
\* succeeded) or the error of connect is thrown.
StartNewConnected(i, outcome) ==
    /\ startCalls[i].pc = "connecting"
    /\ LET n == startCalls[i].session
           session == ConnectOutcome(sessions[n], outcome)
       IN /\ sessions' = [sessions EXCEPT ![n] = session]
          /\ startCalls' = [startCalls EXCEPT ![i] =
                IF FinallyDisposes(session)
                THEN [@ EXCEPT !.connect = outcome,
                               !.pc = IF outcome = "connected"
                                      THEN "disposingReturn" ELSE "disposingThrow"]
                ELSE IF outcome = "connected"
                     THEN [@ EXCEPT !.connect = outcome,
                                    !.pc = "returned", !.result = "session",
                                    !.handedConnected = session.isConnected,
                                    !.handedDisposed = session.disposed]
                     ELSE [@ EXCEPT !.connect = outcome,
                                    !.pc = "failed", !.result = "connectError"]]
    /\ UNCHANGED <<manager, disposeCalls, notSessionVars>>

\* startNew after await session.dispose() (lines 205-208).
StartNewDisposed(i) ==
    /\ startCalls[i].pc \in {"disposingReturn", "disposingThrow"}
    /\ LET n == startCalls[i].session
           session == SessionDisposed(sessions[n])
       IN /\ sessions' = [sessions EXCEPT ![n] = session]
          /\ startCalls' = [startCalls EXCEPT ![i] =
                IF startCalls[i].pc = "disposingReturn"
                THEN [@ EXCEPT !.pc = "returned", !.result = "session",
                               !.handedConnected = session.isConnected,
                               !.handedDisposed = session.disposed]
                ELSE [@ EXCEPT !.pc = "failed", !.result = "connectError"]]
    /\ UNCHANGED <<manager, disposeCalls, notSessionVars>>

\* The caller that was handed session n disposes it.
CallerDisposesSession(n) ==
    /\ n \in 1..Len(sessions)
    /\ \E i \in StartCallIds : startCalls[i].pc = "returned" /\ startCalls[i].session = n
    /\ ~sessions[n].disposed
    /\ sessions' = [sessions EXCEPT ![n] = SessionDisposed(sessions[n])]
    /\ UNCHANGED <<manager, startCalls, disposeCalls, notSessionVars>>

NextSession ==
    \/ Initialize
    \/ \E ok \in BOOLEAN, ready \in {"settles", "never"} : Initialized(ok, ready)
    \/ \E j \in DisposeCallIds, throws \in BOOLEAN : Dispose(j, throws)
    \/ \E j \in DisposeCallIds, outcome \in {"resumed", "rejected", "disposeThrows"} :
          DisposeFinish(j, outcome)
    \/ \E i \in StartCallIds : StartNew(i)
    \/ \E i \in StartCallIds, outcome \in {"connected", "failedDisposed", "failed"} :
          StartNewConnected(i, outcome)
    \/ \E i \in StartCallIds : StartNewDisposed(i)
    \/ \E n \in 1..Len(sessions) : CallerDisposesSession(n)

SpecSession == Init /\ [][NextSession]_vars

----------------------------------------------------------------------------
\* JupyterSessionManager.getKernelSpecs
\* (src/kernels/jupyter/session/jupyterSessionManager.node.ts)

\* The names of the server's kernel specs reach the KernelSpecManager, which
\* asks for them when it is constructed.
SpecsFetched(names) ==
    /\ manager.specsManager
    /\ ~kernelspecs.specs
    /\ kernelspecs' = [specs |-> TRUE, names |-> names]
    /\ UNCHANGED <<specCalls, sessionVars, notSpecVars>>

\* The guard of getKernelSpecs (lines 212-214).
CanGetKernelSpecs == manager.connInfo /\ manager.sessionManager /\ manager.contentsManager

\* The specs known to the specs manager, or these (lines 217-220, 231-234).
KnownOr(fallback) ==
    IF kernelspecs.specs /\ Cardinality(kernelspecs.names) # 0
    THEN kernelspecs.names ELSE fallback

\* getKernelSpecs up to its first await (lines 211-224).
GetKernelSpecs(c) ==
    /\ specCalls[c].pc = "idle"
    /\ \A h \in SpecCallIds : h < c => specCalls[h].pc # "idle"
    /\ specCalls' = [specCalls EXCEPT ![c] =
                        IF CanGetKernelSpecs
                        THEN [@ EXCEPT !.pc = "waitReady", !.old = KnownOr({})]
                        ELSE [@ EXCEPT !.pc = "failed", !.result = "SessionDisposedError"]]
    /\ UNCHANGED <<kernelspecs, sessionVars, notSpecVars>>

\* A mutant of the second wait: no sleep(10_000) in the race.
RefreshRaceSettlesWhenRefreshed(refresh) == refresh = "settles"

\* Promise.race([sleep(10_000), this.specsManager?.refreshSpecs()]) (line
\* 228): it settles in any case, after ten seconds at the latest.
RefreshRaceSettles(refresh) == TRUE

\* getKernelSpecs from the end of the wait for the session manager to the
\* second await (lines 224-228): refreshSpecs is called; refresh tells
\* whether it ever settles.  When the ready promise has rejected, the catch
\* returns [] (lines 248-252).
ReadyWaited(c, outcome, refresh) ==
    /\ specCalls[c].pc = "waitReady"
    /\ RaceSettles(manager.ready)
    /\ outcome = "rejected" => manager.ready = "settles" /\ refresh = "none"
    /\ outcome = "resumed" => refresh # "none"
    /\ specCalls' = [specCalls EXCEPT ![c] =
                        IF outcome = "rejected"
                        THEN [@ EXCEPT !.pc = "done", !.refreshed = "readyRejected",
                                       !.result = "empty"]
                        ELSE [@ EXCEPT !.pc = "waitRefresh", !.refresh = refresh]]
    /\ UNCHANGED <<kernelspecs, sessionVars, notSpecVars>>

\* The enumeration (lines 235-246): one JupyterKernelSpec per name, or the
\* one default spec when there is no name.
Enumerated(names) ==
    IF Cardinality(names) # 0
    THEN [result |-> "specs", specs |-> names]
    ELSE [result |-> "default", specs |-> {}]

\* A mutant of the choice of specs: the old specs are never taken.
ChosenSpecsWithoutOld(specs, old) == IF specs.specs THEN specs.names ELSE {}

\* The choice of lines 231-234: the specs of the specs manager when it has
\* some, else oldKernelSpecs.
ChosenSpecs(specs, old) ==
    IF specs.specs /\ Cardinality(specs.names) # 0 THEN specs.names ELSE old

\* getKernelSpecs after its second await (lines 228-252).  The refresh has
\* brought the names the server reports ("refreshed"), or the sleep has won
\* ("timeout"), or the refresh has failed ("rejected"), and then the catch
\* returns [].
RefreshWaited(c, outcome, names) ==
    /\ specCalls[c].pc = "waitRefresh"
    /\ RefreshRaceSettles(specCalls[c].refresh)
    /\ outcome \in {"refreshed", "rejected"} => specCalls[c].refresh = "settles"
    /\ outcome # "refreshed" => names = {}
    /\ LET specs == IF outcome = "refreshed"
                    THEN [specs |-> TRUE, names |-> names] ELSE kernelspecs
           answer == Enumerated(ChosenSpecs(specs, specCalls[c].old))
       IN  /\ kernelspecs' = specs
           /\ specCalls' = [specCalls EXCEPT ![c] =
                               IF outcome = "rejected"
                               THEN [@ EXCEPT !.pc = "done", !.refreshed = outcome,
                                              !.result = "empty"]
                               ELSE [@ EXCEPT !.pc = "done", !.refreshed = outcome,
                                              !.reported = names,
                                              !.result = answer.result,
                                              !.specs = answer.specs]]
    /\ UNCHANGED <<sessionVars, notSpecVars>>

\* The manager is initialized and disposed (one dispose call tears it down)
\* while getKernelSpecs calls are made.
NextSpecs ==
    \/ Initialize
    \/ \E ok \in BOOLEAN, ready \in {"settles", "never"} : Initialized(ok, ready)
    \/ \E throws \in BOOLEAN : Dispose(1, throws)
    \/ \E outcome \in {"resumed", "rejected", "disposeThrows"} : DisposeFinish(1, outcome)
    \/ \E names \in SUBSET SpecNames : SpecsFetched(names)
    \/ \E c \in SpecCallIds : GetKernelSpecs(c)
    \/ \E c \in SpecCallIds, outcome \in {"resumed", "rejected"},
          refresh \in {"settles", "never", "none"} : ReadyWaited(c, outcome, refresh)
    \/ \E c \in SpecCallIds, outcome \in {"refreshed", "timeout", "rejected"},
          names \in SUBSET SpecNames : RefreshWaited(c, outcome, names)

SpecSpecs == Init /\ [][NextSpecs]_vars

\* The sleeps of ten seconds end both waits of getKernelSpecs.
SpecSpecsLive ==
    SpecSpecs /\ WF_vars(\E c \in SpecCallIds :
                    \/ \E outcome \in {"resumed", "rejected"},
                          refresh \in {"settles", "never", "none"} :
                              ReadyWaited(c, outcome, refresh)
                    \/ \E outcome \in {"refreshed", "timeout", "rejected"},
                          names \in SUBSET SpecNames :
                              RefreshWaited(c, outcome, names))

----------------------------------------------------------------------------
\* JupyterSessionManager.getRunningKernels, getRunningSessions
\* (src/kernels/jupyter/session/jupyterSessionManager.node.ts)

\* The sequences over S of length n at most.
SeqsUpTo(S, n) == UNION {[1..k -> S] : k \in 0..n}

\* The map of getRunningKernels (lines 148-158), with the fields that matter
\* here.
RunningKernel(m) == [id |-> m.id, name |-> m.name]

RECURSIVE MapRunningKernel(_)
MapRunningKernel(models) ==
    IF models = << >> THEN << >>
    ELSE <<RunningKernel(Head(models))>> \o MapRunningKernel(Tail(models))

\* A mutant of the filter: every item is kept.
FilterDupKeepsAll(items, dup) == items

\* The filter of getRunningKernels (lines 159-165): an item whose id is in
\* dup is dropped; the id of an item that is kept is added to dup.
RECURSIVE FilterDup(_, _)
FilterDup(items, dup) ==
    IF items = << >> THEN << >>
    ELSE IF Head(items).id \in dup
         THEN FilterDup(Tail(items), dup)
         ELSE <<Head(items)>> \o FilterDup(Tail(items), dup \cup {Head(items).id})

\* getRunningKernels (lines 143-166) on the models KernelAPI.listRunning
\* gives.
GetRunningKernels(models) ==
    /\ running' = [call |-> "getRunningKernels", models |-> models,
                   result |-> FilterDup(MapRunningKernel(models), {})]
    /\ UNCHANGED notRunningVars

\* The loop of getRunningSessions (lines 131-138): every session the iterator
\* yields is pushed.
RECURSIVE PushAll(_, _)
PushAll(sessionModels, pushed) ==
    IF sessionModels = << >> THEN pushed
    ELSE PushAll(Tail(sessionModels), Append(pushed, Head(sessionModels)))

\* getRunningSessions (lines 124-141): without a session manager nothing;
\* else the running sessions after a refresh.
GetRunningSessions(hasSessionManager, sessionModels) ==
    /\ running' = [call |-> "getRunningSessions", models |-> sessionModels,
                   result |-> IF hasSessionManager
                              THEN PushAll(sessionModels, << >>) ELSE << >>]
    /\ UNCHANGED notRunningVars

\* The lists SessionManager.running() can yield: no session id twice.
RunningSessionLists ==
    {l \in SeqsUpTo(SessionModels, MaxModels) :
        \A i, j \in 1..Len(l) : l[i].id = l[j].id => i = j}

NextRunning ==
    \/ \E models \in SeqsUpTo(KernelModels, MaxModels) : GetRunningKernels(models)
    \/ \E hasSessionManager \in BOOLEAN, sessionModels \in RunningSessionLists :
          GetRunningSessions(hasSessionManager, sessionModels)

SpecRunning == Init /\ [][NextRunning]_vars

\* The sleep of ten seconds ends every wait of dispose.
SpecSessionLive ==
    SpecSession /\ \A j \in DisposeCallIds :
                      WF_vars(\E outcome \in {"resumed", "rejected", "disposeThrows"} :
                                  DisposeFinish(j, outcome))

----------------------------------------------------------------------------
\* JupyterSessionManager.getServerConnectSettings
\* (src/kernels/jupyter/session/jupyterSessionManager.node.ts)

\* A mutant of the password test: only the token 'null' counts as no token.
TokenlessOnlyNull(connInfo) == connInfo.token = "null"

\* The test of line 280: no token.
Tokenless(connInfo) == connInfo.token = "" \/ connInfo.token = "null"

\* baseUrl.startsWith('https') (lines 311, 374).
StartsWithHttps(baseUrl) == baseUrl[1] = "https:"

\* The test of line 374: local launch, https, or a token.
IsSecure(connInfo) ==
    connInfo.localLaunch \/ StartsWithHttps(connInfo.baseUrl) \/ connInfo.token # "null"

\* A mutant of the lookup: the cache is never hit.
secureServersGetNothing(baseUrl) == 0

\* JupyterSessionManager.secureServers.get(baseUrl) (line 378).
secureServersGet(baseUrl) == secureServers[baseUrl]

\* A mutant of the prompt's value: every response trusts the server.
PromptValueAlwaysTrue(response) == TRUE

\* The value insecureServerWarningPrompt returns for a response (lines 348-362).
PromptValue(response) == response \in {"Yes", "DoNotShowAgain"}

\* A mutant of the test: the protocol of the base url is not looked at.
RelaxesCertificatesAnyProtocol(connInfo, allowUnauthorized) == allowUnauthorized

\* The test of line 311: https, and the setting allows unauthorized connections.
RelaxesCertificates(connInfo, allowUnauthorized) ==
    StartsWithHttps(connInfo.baseUrl) /\ allowUnauthorized

\* The end of getServerConnectSettings (lines 308-339): the setting is read,
\* the request agent is relaxed or not, and the settings are made.
MakeSettings(mgr) ==
    [mgr EXCEPT !.pc = "ready", !.serverSettings = TRUE,
                !.agentRelaxed = RelaxesCertificates(mgr.connInfo,
                                                     allowUnauthorizedRemoteConnection)]

\* A mutant of the opt-in: "do not show again" does not update the state.
UpdatedValueUnchanged(response) == userAllowsInsecureConnections

\* userAllowsInsecureConnections after a response (lines 353-356).
UpdatedValue(response) == userAllowsInsecureConnections \/ response = "DoNotShowAgain"

\* getServerConnectSettings from the end of secureConnectionCheck to its next
\* await or its end (lines 266-339): without a token and without an
\* authorization header a password is asked for, unless that is not allowed.
AfterSecureConnectionCheck(mgr) ==
    IF Tokenless(mgr.connInfo) /\ ~mgr.connInfo.getAuthHeader
    THEN IF mgr.failOnPassword
         THEN [mgr EXCEPT !.pc = "failed", !.error = "passwordNotAllowed"]
         ELSE [mgr EXCEPT !.pc = "awaitPassword", !.passwordRequests = @ + 1]
    ELSE MakeSettings(mgr)

\* initialize (line 113) and getServerConnectSettings up to the await in
\* secureConnectionCheck (lines 255-264, 367-386): with the global opt-in or a
\* secure connection the check returns; else the promise of the base url is
\* looked up, and when there is none the warning is shown and its promise
\* stored.
GetServerConnectSettings(m, connInfo, failOnPassword) ==
    /\ managers[m].pc = "new"
    /\ \A h \in ManagerIds : h < m => managers[h].pc # "new"
    /\ LET mgr == [managers[m] EXCEPT
                      !.connInfo = connInfo, !.failOnPassword = failOnPassword,
                      !.optedIn = userAllowsInsecureConnections,
                      !.hadDecision = \E p \in 1..Len(prompts) :
                                          prompts[p].hostName = connInfo.hostName]
           serverSecurePromise == secureServersGet(connInfo.baseUrl)
       IN  IF userAllowsInsecureConnections \/ IsSecure(connInfo)
           THEN /\ managers' = [managers EXCEPT ![m] = AfterSecureConnectionCheck(mgr)]
                /\ UNCHANGED <<secureServers, prompts>>
           ELSE IF serverSecurePromise = 0
                THEN /\ prompts' = Append(prompts, [baseUrl |-> connInfo.baseUrl,
                                                    hostName |-> connInfo.hostName,
                                                    response |-> "pending"])
                     /\ secureServers' = [secureServers EXCEPT
                                             ![connInfo.baseUrl] = Len(prompts) + 1]
                     /\ managers' = [managers EXCEPT ![m] =
                                        [mgr EXCEPT !.pc = "awaitTrust",
                                                    !.promise = Len(prompts) + 1]]
                ELSE /\ managers' = [managers EXCEPT ![m] =
                                        [mgr EXCEPT !.pc = "awaitTrust",
                                                    !.promise = serverSecurePromise]]
                     /\ UNCHANGED <<secureServers, prompts>>
    /\ UNCHANGED <<userAllowsInsecureConnections, allowUnauthorizedRemoteConnection,
                   notTrustVars>>

\* The user answers warning p, or closes it (lines 346-362); "do not show
\* again" turns the global opt-in on.
InsecureServerWarningAnswered(p, response) ==
    /\ p \in 1..Len(prompts)
    /\ prompts[p].response = "pending"
    /\ prompts' = [prompts EXCEPT ![p].response = response]
    /\ userAllowsInsecureConnections' = UpdatedValue(response)
    /\ UNCHANGED <<secureServers, managers, allowUnauthorizedRemoteConnection, notTrustVars>>

\* secureConnectionCheck after its await (lines 387-389), and what follows it
\* in getServerConnectSettings.
SecureConnectionChecked(m) ==
    /\ managers[m].pc = "awaitTrust"
    /\ prompts[managers[m].promise].response # "pending"
    /\ managers' = [managers EXCEPT ![m] =
                       IF PromptValue(prompts[managers[m].promise].response)
                       THEN AfterSecureConnectionCheck(managers[m])
                       ELSE [@ EXCEPT !.pc = "failed", !.error = "insecureSessionDenied"]]
    /\ UNCHANGED <<secureServers, userAllowsInsecureConnections, prompts,
                   allowUnauthorizedRemoteConnection, notTrustVars>>

\* getServerConnectSettings after getPasswordConnectionInfo (lines 286-304):
\* without connection info the call fails, with it the settings are made.
PasswordConnectionInfo(m, pwSettings) ==
    /\ managers[m].pc = "awaitPassword"
    /\ managers' = [managers EXCEPT ![m] =
                       IF pwSettings = "undefined"
                       THEN [@ EXCEPT !.pc = "failed", !.error = "passwordFailure",
                                      !.pwSettings = pwSettings]
                       ELSE MakeSettings([@ EXCEPT !.pwSettings = pwSettings])]
    /\ UNCHANGED <<secureServers, userAllowsInsecureConnections, prompts,
                   allowUnauthorizedRemoteConnection, notTrustVars>>

\* A mutant of the handler: every answer turns the setting on.
SettingAfterSelfCertAlwaysOn(value) == TRUE

\* allowUnauthorizedRemoteConnection after the answer to the
\* self-signed-certificate message (errorHandler.node.ts, lines 73-82).
SettingAfterSelfCert(value) == allowUnauthorizedRemoteConnection \/ value = "enable"

\* DataScienceErrorHandler.handleError with a JupyterSelfCertsError
\* (errorHandler.node.ts, lines 66-84): the connect of manager m over https,
\* with a strict agent, has failed on the server's certificate; the user
\* picks the enable option, the close option, or nothing.
HandleSelfCertsError(m, value) ==
    /\ managers[m].pc = "ready"
    /\ StartsWithHttps(managers[m].connInfo.baseUrl)
    /\ ~managers[m].agentRelaxed
    /\ managers[m].selfCert = "none"
    /\ managers' = [managers EXCEPT ![m].selfCert = value]
    /\ allowUnauthorizedRemoteConnection' = SettingAfterSelfCert(value)
    /\ UNCHANGED <<secureServers, userAllowsInsecureConnections, prompts, notTrustVars>>

NextTrust ==
    \/ \E m \in ManagerIds, value \in {"enable", "close", "dismissed"} :
          HandleSelfCertsError(m, value)
    \/ \E m \in ManagerIds, connInfo \in Connections, failOnPassword \in BOOLEAN :
          GetServerConnectSettings(m, connInfo, failOnPassword)
    \/ \E p \in 1..Len(prompts), response \in Responses :
          InsecureServerWarningAnswered(p, response)
    \/ \E m \in ManagerIds : SecureConnectionChecked(m)
    \/ \E m \in ManagerIds, pwSettings \in {"requestHeaders", "noHeaders", "undefined"} :
          PasswordConnectionInfo(m, pwSettings)

SpecTrust == Init /\ [][NextTrust]_vars

----------------------------------------------------------------------------
(***************************************************************************)
(* JupyterSessionManagerFactory, RemoteKernelFinder                        *)
(***************************************************************************)

\* A consumer takes onRestartSessionCreated or onRestartSessionUsed of the
\* factory and registers a listener.
Subscribe(s, kind) ==
    /\ kind \notin subscribers[s].events
    /\ subscribers' =
          [subscribers EXCEPT ![s] =
              [@ EXCEPT !.events = @ \cup {kind},
                        !.early = IF \A m \in FactoryManagerIds : factoryManagers[m].pc = "idle"
                                  THEN @ \cup {kind} ELSE @]]
    /\ UNCHANGED <<factoryManagers, restartSessions, kernelIdsToHide, listCall, notFinderVars>>

\* JupyterSessionManagerFactory.create up to its await: the manager is
\* constructed and initialize is called.  Managers are created in index order.
Create(m) ==
    /\ factoryManagers[m].pc = "idle"
    /\ \A h \in FactoryManagerIds : h < m => factoryManagers[h].pc # "idle"
    /\ factoryManagers' = [factoryManagers EXCEPT ![m] = [@ EXCEPT !.pc = "initializing"]]
    /\ UNCHANGED <<subscribers, restartSessions, kernelIdsToHide, listCall, notFinderVars>>

\* A mutant of create: the events of the manager are not bound.
RebroadcastNothing == {}

\* The events of the new manager that create binds to the fire of the
\* factory-level event of the same name.
Rebroadcast == EventKinds

\* create after its await: when initialize succeeded the two events are
\* bound and the manager is returned; when it failed create rejects.
CreateInitialized(m, ok) ==
    /\ factoryManagers[m].pc = "initializing"
    /\ factoryManagers' =
          [factoryManagers EXCEPT ![m] =
              IF ok THEN [pc |-> "returned", hooked |-> Rebroadcast]
              ELSE [pc |-> "failed", hooked |-> {}]]
    /\ UNCHANGED <<subscribers, restartSessions, kernelIdsToHide, listCall, notFinderVars>>

\* RemoteKernelFinder.addKernelToIgnoreList.
addKernelToIgnoreList(hide, kernel) == hide \cup {kernel.id, kernel.clientId}

\* RemoteKernelFinder.removeKernelFromIgnoreList.
removeKernelFromIgnoreList(hide, kernel) == hide \ {kernel.id, kernel.clientId}

\* fire of a factory-level event: every listener of that event is called with
\* the kernel connection, the two listeners of the kernel finder included.
Fire(kind, kernel) ==
    /\ subscribers' =
          [s \in SubscriberIds |->
              IF kind \in subscribers[s].events
              THEN [subscribers[s] EXCEPT !.log = Append(@, [kind |-> kind, kernel |-> kernel])]
              ELSE subscribers[s]]
    /\ kernelIdsToHide' = IF kind = "created"
                          THEN addKernelToIgnoreList(kernelIdsToHide, kernel)
                          ELSE removeKernelFromIgnoreList(kernelIdsToHide, kernel)

\* A session of manager m, a manager create has returned, fires one of the
\* two events through the callbacks startNew gave it: "created" when the
\* restart session of a fresh kernel exists, "used" when a restart takes it.
\* The listeners of the manager's event are the ones create bound.
ManagerFires(m, kind, kernel) ==
    /\ factoryManagers[m].pc = "returned"
    /\ \/ kind = "created" /\ restartSessions[kernel.id].state = "none"
       \/ /\ kind = "used"
          /\ restartSessions[kernel.id] = [state |-> "created", manager |-> m]
    /\ restartSessions' = [restartSessions EXCEPT ![kernel.id] = [state |-> kind, manager |-> m]]
    /\ IF kind \in factoryManagers[m].hooked
       THEN Fire(kind, kernel)
       ELSE UNCHANGED <<subscribers, kernelIdsToHide>>
    /\ UNCHANGED <<factoryManagers, listCall, notFinderVars>>

NextFactory ==
    \/ \E s \in SubscriberIds, kind \in EventKinds : Subscribe(s, kind)
    \/ \E m \in FactoryManagerIds : Create(m)
    \/ \E m \in FactoryManagerIds, ok \in BOOLEAN : CreateInitialized(m, ok)
    \/ \E m \in FactoryManagerIds, kind \in EventKinds, kernel \in KernelConnections :
          ManagerFires(m, kind, kernel)

SpecFactory == Init /\ [][NextFactory]_vars

\* The lists getRunningKernels can return: no kernel id twice.
RunningLists ==
    { FilterDup(MapRunningKernel(l), {}) :
        l \in SeqsUpTo({m \in KernelModels : m.name = "x"}, Cardinality(KernelIds)) }

\* The lists getRunningSessions can return to listKernels: the sessions are
\* named in the order of the list.
ListedSessions ==
    { l \in SeqsUpTo(SessionModels, MaxListed) :
        \A i \in 1..Len(l) : l[i].id = <<"s1", "s2", "s3">>[i] }

\* The kernel specs in the order the server lists them.
SpecList(names) == SelectSeq(<<"python3", "ir">>, LAMBDA n : n \in names)

\* getKernelId(spec, undefined, baseUrl): one id per spec name of a server.
getKernelId(name) == name

\* listKernels up to its first await: without a connection of type 'jupyter'
\* it returns []; else it asks the factory for a session manager.
ListKernels(type) ==
    /\ listCall.pc \in {"idle", "done"}
    /\ listCall' = IF type = "jupyter"
                   THEN [NoListCall EXCEPT !.pc = "creating"]
                   ELSE [NoListCall EXCEPT !.pc = "done", !.outcome = "returned"]
    /\ UNCHANGED <<factoryManagers, subscribers, restartSessions, kernelIdsToHide, notFinderVars>>

\* factory.create settles.  When it rejects, sessionManager is undefined, the
\* finally block has nothing to dispose, and the rejection leaves listKernels.
ListKernelsCreated(ok) ==
    /\ listCall.pc = "creating"
    /\ listCall' = IF ok
                   THEN [listCall EXCEPT !.pc = "querying"]
                   ELSE [listCall EXCEPT !.pc = "done", !.failure = "create", !.outcome = "threw"]
    /\ UNCHANGED <<factoryManagers, subscribers, restartSessions, kernelIdsToHide, notFinderVars>>

\* The Promise.all of the three queries settles.  getKernelSpecs catches its
\* own failure and gives []; a rejection of getRunningKernels or of
\* getRunningSessions rejects the Promise.all, and control goes to finally.
ListKernelsQueried(failure, runningKernels, specs, sessionModels) ==
    /\ listCall.pc = "querying"
    /\ failure = "specs" => specs = {}
    /\ listCall' = IF failure \in {"running", "sessions"}
                   THEN [listCall EXCEPT !.pc = "disposing", !.failure = failure,
                                         !.outcome = "threw"]
                   ELSE [listCall EXCEPT !.pc = "mapping", !.failure = failure,
                                         !.running = runningKernels, !.specs = specs,
                                         !.sessions = sessionModels]
    /\ UNCHANGED <<factoryManagers, subscribers, restartSessions, kernelIdsToHide, notFinderVars>>

\* One entry of mappedSpecs.
MappedSpec(name) ==
    [kind |-> "startUsingRemoteKernelSpec", id |-> getKernelId(name),
     kernelModelId |-> "", session |-> ""]

\* One entry of mappedLive: its id is the kernel id of the session; the id of
\* its kernelModel is that of the running kernel with that id when there is
\* one, else the kernel id of the session.
MappedLive(s, runningKernels) ==
    LET active == SelectSeq(runningKernels, LAMBDA k : k.id = s.kernelId)
    IN [kind |-> "connectToLiveRemoteKernel", id |-> s.kernelId,
        kernelModelId |-> IF active # << >> THEN Head(active).id ELSE s.kernelId,
        session |-> s.id]

\* A mutant of the filter: no kernel is hidden.
IsHiddenNever(hide, k) == FALSE

\* The test of the filter.
IsHidden(hide, k) == k.kernelModelId \in hide

\* The items of a listing: the live entries that are not hidden, one per
\* session and in the order of the sessions, then one entry per spec.
Items(runningKernels, specs, sessionModels, hide) ==
    LET mappedSpecs == [i \in 1..Len(SpecList(specs)) |-> MappedSpec(SpecList(specs)[i])]
        mappedLive == [i \in 1..Len(sessionModels) |-> MappedLive(sessionModels[i], runningKernels)]
        filtered == SelectSeq(mappedLive, LAMBDA k : ~IsHidden(hide, k))
    IN filtered \o mappedSpecs

\* listKernels after the await of mappedSpecs: the live entries are mapped
\* and filtered with kernelIdsToHide as it is now, the items are put
\* together, and the finally block calls sessionManager.dispose().
ListKernelsMapped ==
    /\ listCall.pc = "mapping"
    /\ listCall' = [listCall EXCEPT
                       !.pc = "disposing", !.outcome = "returned",
                       !.items = Items(listCall.running, listCall.specs,
                                       listCall.sessions, kernelIdsToHide)]
    /\ UNCHANGED <<factoryManagers, subscribers, restartSessions, kernelIdsToHide, notFinderVars>>

\* sessionManager.dispose() has completed: the caller gets the items, or the
\* error of the query that failed.
ListKernelsDisposed ==
    /\ listCall.pc = "disposing"
    /\ listCall' = [listCall EXCEPT !.pc = "done"]
    /\ UNCHANGED <<factoryManagers, subscribers, restartSessions, kernelIdsToHide, notFinderVars>>

\* The kernel finder with one manager whose sessions restart.
NextFinder ==
    \/ Create(1)
    \/ \E ok \in BOOLEAN : CreateInitialized(1, ok)
    \/ \E kind \in EventKinds, kernel \in KernelConnections : ManagerFires(1, kind, kernel)
    \/ \E type \in {"jupyter", "raw", "none"} : ListKernels(type)
    \/ \E ok \in BOOLEAN : ListKernelsCreated(ok)
    \/ \E failure \in {"none", "running", "specs", "sessions"},
          runningKernels \in RunningLists, specs \in SUBSET SpecNames,
          sessionModels \in ListedSessions :
              ListKernelsQueried(failure, runningKernels, specs, sessionModels)
    \/ ListKernelsMapped
    \/ ListKernelsDisposed

SpecFinder == Init /\ [][NextFinder]_vars

----------------------------------------------------------------------------
(***************************************************************************)
(* ServerCache: dispose                                                    *)
(***************************************************************************)

\* [...this.cache.values()] (line 100): the creations that have an entry, in
\* the order of their insertion.
CacheValues ==
    SelectSeq([c \in 1..Len(created) |-> c], LAMBDA c : cache[created[c].key] = c)

\* One entry of the snapshot, before its race: the creation, where the
\* callback of line 103 stands, what the race gave, how often this dispose()
\* called dispose on the server, and whether that disposal ever finishes.
NewEntry(c) ==
    [data |-> c, pc |-> "racing", raced |-> "pending", disposals |-> 0,
     disposal |-> "none"]

\* A mutant of the clear: the entries stay in the cache.
ClearedKeepingEntries == cache

\* this.cache.clear() (line 101).
Cleared == [key \in KeySet |-> 0]

\* ServerCache.dispose up to its await: when the cache is disposed already,
\* nothing; else the flag, the snapshot, the clear, and one callback per
\* entry, each up to its race.  Calls are issued in index order.
CacheDispose(d) ==
    /\ shutdownCalls[d].pc = "idle"
    /\ \A h \in ShutdownCallIds : h < d => shutdownCalls[h].pc # "idle"
    /\ IF disposed
       THEN /\ shutdownCalls' = [shutdownCalls EXCEPT ![d] = [pc |-> "done", first |-> FALSE]]
            /\ UNCHANGED <<disposed, entries, cache>>
       ELSE /\ disposed' = TRUE
            /\ entries' = [e \in 1..Len(CacheValues) |-> NewEntry(CacheValues[e])]
            /\ cache' = Cleared
            /\ shutdownCalls' = [shutdownCalls EXCEPT ![d] = [pc |-> "waiting", first |-> TRUE]]
    /\ UNCHANGED <<created, calls, notCacheShutdownVars>>

\* The race of one entry (line 106) ends.  A promise that has settled wins:
\* with a server, dispose() is called on it (line 109), which evicts the key
\* when getOrCreate has wrapped it; with undefined that call throws, and a
\* rejection throws as well, both into the catch of line 113.  While the
\* promise is pending only the sleep of one second can end the race.  Whether
\* the disposal of the server ever finishes is the server's matter.
EntryRaced(e, disposal) ==
    /\ e \in 1..Len(entries)
    /\ entries[e].pc = "racing"
    /\ LET c == entries[e].data
           state == created[c].state
       IN IF state = "server"
          THEN /\ entries' = [entries EXCEPT ![e] =
                                 [@ EXCEPT !.pc = "disposing", !.raced = "server",
                                           !.disposals = @ + 1, !.disposal = disposal]]
               /\ created' = [created EXCEPT ![c] = [@ EXCEPT !.disposed = TRUE]]
               /\ cache' = IF created[c].wrapped THEN Evict(created[c].key) ELSE cache
          ELSE /\ disposal = "none"
               /\ entries' = [entries EXCEPT ![e] =
                                 [@ EXCEPT !.pc = "done",
                                           !.raced = IF state = "pending" THEN "timeout"
                                                     ELSE state]]
               /\ UNCHANGED <<created, cache>>
    /\ created[entries[e].data].state = "server" => disposal # "none"
    /\ UNCHANGED <<disposed, shutdownCalls, calls, notCacheShutdownVars>>

\* The disposal of the server of one entry finishes: it resolves, or it
\* rejects into the catch of line 113.
EntryDisposed(e, outcome) ==
    /\ e \in 1..Len(entries)
    /\ entries[e].pc = "disposing"
    /\ entries[e].disposal = "finishes"
    /\ entries' = [entries EXCEPT ![e] = [@ EXCEPT !.pc = "done", !.disposal = outcome]]
    /\ UNCHANGED <<disposed, shutdownCalls, cacheVars, notCacheShutdownVars>>

\* The Promise.all of line 102 resolves once every callback has returned.
CacheDisposeFinish(d) ==
    /\ shutdownCalls[d].pc = "waiting"
    /\ \A e \in 1..Len(entries) : entries[e].pc = "done"
    /\ shutdownCalls' = [shutdownCalls EXCEPT ![d] = [@ EXCEPT !.pc = "done"]]
    /\ UNCHANGED <<disposed, entries, cacheVars, notCacheShutdownVars>>

\* The cache is filled by two getOrCreate calls (two entries at most, equal
\* or different keys) while dispose calls are made.
NextShutdown ==
    \/ \E i \in {1, 2}, o \in OptionSet : GetOrCreateStart(i, o)
    \/ \E i \in {1, 2} : GetOrCreateLookup(i)
    \/ \E c \in 1..Len(created), outcome \in {"server", "none", "rejected"} : Settle(c, outcome)
    \/ \E i \in {1, 2} : GetOrCreateHandlers(i)
    \/ \E c \in 1..Len(created) : ServerDispose(c)
    \/ \E d \in ShutdownCallIds : CacheDispose(d)
    \/ \E e \in 1..Len(entries), disposal \in {"none", "finishes", "never"} : EntryRaced(e, disposal)
    \/ \E e \in 1..Len(entries), outcome \in {"resolved", "rejected"} : EntryDisposed(e, outcome)
    \/ \E d \in ShutdownCallIds : CacheDisposeFinish(d)

SpecShutdown == Init /\ [][NextShutdown]_vars

\* The sleep of one second ends every race, a disposal that finishes does
\* finish, and the continuation of a Promise.all that has resolved runs.
SpecShutdownLive ==
    /\ SpecShutdown
    /\ WF_shutdownVars(\E e \in 1..Len(entries), disposal \in {"none", "finishes", "never"} :
                           EntryRaced(e, disposal))
    /\ WF_shutdownVars(\E e \in 1..Len(entries), outcome \in {"resolved", "rejected"} :
                           EntryDisposed(e, outcome))
    /\ WF_shutdownVars(\E d \in ShutdownCallIds : CacheDisposeFinish(d))

----------------------------------------------------------------------------
(***************************************************************************)
(* DataScienceErrorHandler                                                 *)
(***************************************************************************)

\* WrappedError.unwrap: the error a WrappedError was made around, else the
\* error itself.
unwrap(err) == IF err.wrapped THEN [err EXCEPT !.wrapped = FALSE] ELSE err

\* A mutant of the cancellation test: CancellationError is not recognised.
IsCancellationOnlyVsc(err) == err.kind = "VscCancellationError"

\* err instanceof VscCancellationError || err instanceof CancellationError.
IsCancellation(err) == err.kind \in {"VscCancellationError", "CancellationError"}

\* errorContext === 'start' || errorContext === 'restart'.
StartOrRestart(context) == context \in {"start", "restart"}

\* The error is a BaseKernelError or a WrappedKernelError.
IsKernelError(err) ==
    err.kind \in {"KernelConnectionTimeoutError", "KernelDiedError", "KernelDeadError"}

\* A mutant of the mapping: every install response counts as ok.
DependencyResultAlwaysOk(response) == "ok"

\* The KernelInterpreterDependencyResponse for a
\* JupyterInterpreterDependencyResponse: ok for ok, else cancel.
DependencyResult(response) == IF response = "ok" THEN "ok" ELSE "cancel"

\* A call can be issued: the one before it has returned and the prompt it
\* opened has been answered or dismissed.
CanCallErrorHandler ==
    /\ errorCall.pc \in {"idle", "done"}
    /\ errorCall.prompt # "open"
    /\ errorCall.n < MaxErrorCalls

\* The record of a call that starts now.
NewErrorCall(fn, err, context) ==
    [NoErrorCall EXCEPT !.n = errorCall.n + 1, !.fn = fn, !.err = unwrap(err),
                        !.wrapped = err.wrapped, !.context = context]

\* One more message, prompt or install flow the user sees for error e.
Show(e) == shown' = [shown EXCEPT ![e] = @ + 1]

\* handleError up to its first await.  An error that was handled before is
\* dropped; else it joins handledErrors and the class decides: the install
\* flow, the self-signed-certificate prompt, nothing for a cancellation, or
\* a message.
HandleError(err) ==
    /\ CanCallErrorHandler
    /\ LET e == unwrap(err)
           call == NewErrorCall("handleError", err, "none")
       IN IF e \in handledErrors
          THEN /\ errorCall' = [call EXCEPT !.pc = "done", !.result = "void"]
               /\ UNCHANGED <<handledErrors, shown>>
          ELSE /\ handledErrors' = handledErrors \cup {e}
               /\ CASE e.kind = "JupyterInstallError" ->
                         /\ errorCall' = [call EXCEPT !.pc = "installing", !.installs = 1]
                         /\ Show(e)
                    [] e.kind = "JupyterSelfCertsError" ->
                         /\ errorCall' = [call EXCEPT !.pc = "prompting", !.messages = 1,
                                                      !.prompt = "open"]
                         /\ Show(e)
                    [] IsCancellation(e) ->
                         /\ errorCall' = [call EXCEPT !.pc = "done", !.result = "void"]
                         /\ UNCHANGED shown
                    [] OTHER ->
                         /\ errorCall' = [call EXCEPT !.pc = "done", !.result = "void",
                                                      !.messages = 1]
                         /\ Show(e)
    /\ UNCHANGED notErrorVars

\* handleKernelError up to its first await.  handledErrors is not consulted.
HandleKernelError(err, context) ==
    /\ CanCallErrorHandler
    /\ LET e == unwrap(err)
           call == NewErrorCall("handleKernelError", err, context)
       IN CASE e.kind = "JupyterKernelDependencyError" ->
                  IF e.reason = "uiHidden"
                  THEN /\ errorCall' = [call EXCEPT !.pc = "installing", !.installs = 1]
                       /\ Show(e)
                  ELSE /\ errorCall' = [call EXCEPT !.pc = "done", !.result = e.reason]
                       /\ UNCHANGED shown
            [] StartOrRestart(context) /\ e.kind = "JupyterInstallError" ->
                  /\ errorCall' = [call EXCEPT !.pc = "installing", !.installs = 1]
                  /\ Show(e)
            [] e.kind = "JupyterSelfCertsError" ->
                  /\ errorCall' = [call EXCEPT !.pc = "done", !.result = "failed",
                                               !.messages = 1, !.prompt = "open"]
                  /\ Show(e)
            [] IsCancellation(e) ->
                  /\ errorCall' = [call EXCEPT !.pc = "done", !.result = "cancel"]
                  /\ UNCHANGED shown
            [] StartOrRestart(context) ->
                  /\ errorCall' = [call EXCEPT !.pc = "checking"]
                  /\ UNCHANGED shown
            [] OTHER ->
                  /\ errorCall' = [call EXCEPT !.pc = "done", !.result = "failed",
                                               !.messages = 1]
                  /\ Show(e)
    /\ UNCHANGED <<handledErrors, notErrorVars>>

\* dependencyManager.installMissingDependencies has answered: handleError
\* returns; handleKernelError returns ok for ok and cancel for the rest.
InstallResponded(response) ==
    /\ errorCall.pc = "installing"
    /\ errorCall' = [errorCall EXCEPT
                        !.pc = "done", !.response = response,
                        !.result = IF errorCall.fn = "handleError" THEN "void"
                                   ELSE DependencyResult(response)]
    /\ UNCHANGED <<handledErrors, shown, notErrorVars>>

\* The user answers the self-signed-certificate prompt, or dismisses it: the
\* enable option turns the setting on; a handleError that waited returns.
SelfCertAnswered(value) ==
    /\ errorCall.prompt = "open"
    /\ errorCall' = [errorCall EXCEPT
                        !.prompt = value,
                        !.pc = "done",
                        !.result = IF errorCall.fn = "handleError" THEN "void" ELSE @]
    /\ allowUnauthorizedRemoteConnection' = SettingAfterSelfCert(value)
    /\ UNCHANGED <<handledErrors, shown, secureServers, userAllowsInsecureConnections,
                   prompts, managers, notErrorTrustVars>>

\* handleKernelError after kernelDependency.areDependenciesInstalled: when
\* they are missing the install flow of the kernel dependency service starts
\* and its answer will be returned; else the message, and failed.
DependenciesChecked(installed) ==
    /\ errorCall.pc = "checking"
    /\ errorCall.fn = "handleKernelError"
    /\ IF installed
       THEN errorCall' = [errorCall EXCEPT !.pc = "done", !.result = "failed", !.messages = 1]
       ELSE errorCall' = [errorCall EXCEPT !.pc = "kernelInstalling", !.installs = 1]
    /\ Show(errorCall.err)
    /\ UNCHANGED <<handledErrors, notErrorVars>>

\* kernelDependency.installMissingDependencies has answered.
KernelInstallResponded(response) ==
    /\ errorCall.pc = "kernelInstalling"
    /\ errorCall' = [errorCall EXCEPT !.pc = "done", !.response = response, !.result = response]
    /\ UNCHANGED <<handledErrors, shown, notErrorVars>>

\* The message of the else-if chain of getErrorMessageForDisplayInCell from
\* the BaseKernelError branch on: the message for a missing ipykernel, that of
\* the failure analysis, or the user friendly message.
KernelErrorMessage(err, failureInfo) ==
    IF IsKernelError(err) /\ failureInfo # "none"
    THEN IF failureInfo = "ipykernel" THEN "ipykernelMissing" ELSE "failureInfo"
    ELSE "userFriendly"

\* getErrorMessageForDisplayInCell up to its await: '' for a dead kernel and
\* for a cancellation, the message for a missing ipykernel or a missing
\* Jupyter, and for a kernel that died with a local interpreter the check of
\* its dependencies.  failureInfo is what analyzeKernelErrors finds.
GetErrorMessageForDisplayInCell(err, context, localInterpreter, failureInfo) ==
    /\ CanCallErrorHandler
    /\ LET e == unwrap(err)
           call == NewErrorCall("getErrorMessageForDisplayInCell", err, context)
       IN errorCall' =
             CASE e.kind = "KernelDeadError" -> [call EXCEPT !.pc = "done", !.result = ""]
               [] e.kind = "JupyterKernelDependencyError" ->
                     [call EXCEPT !.pc = "done", !.result = "ipykernelMissing"]
               [] e.kind = "JupyterInstallError" ->
                     [call EXCEPT !.pc = "done", !.result = "jupyterMissing"]
               [] IsCancellation(e) -> [call EXCEPT !.pc = "done", !.result = ""]
               [] e.kind = "KernelDiedError" /\ localInterpreter ->
                     [call EXCEPT !.pc = "checking", !.response = failureInfo]
               [] OTHER ->
                     [call EXCEPT !.pc = "done", !.result = KernelErrorMessage(e, failureInfo)]
    /\ UNCHANGED <<handledErrors, shown, notErrorVars>>

\* getErrorMessageForDisplayInCell after areDependenciesInstalled.
CellDependenciesChecked(installed) ==
    /\ errorCall.pc = "checking"
    /\ errorCall.fn = "getErrorMessageForDisplayInCell"
    /\ errorCall' = [errorCall EXCEPT
                        !.pc = "done", !.response = "none",
                        !.result = IF installed
                                   THEN KernelErrorMessage(errorCall.err, errorCall.response)
                                   ELSE "ipykernelMissing"]
    /\ UNCHANGED <<handledErrors, shown, notErrorVars>>

NextErrors ==
    \/ \E err \in Errors : HandleError(err)
    \/ \E err \in Errors, context \in {"start", "restart", "execution"} :
          HandleKernelError(err, context)
    \/ \E response \in {"ok", "selectAnotherInterpreter", "cancel"} : InstallResponded(response)
    \/ \E value \in {"enable", "close", "dismissed"} : SelfCertAnswered(value)
    \/ \E installed \in BOOLEAN : DependenciesChecked(installed)
    \/ \E response \in {"ok", "cancel", "failed", "selectDifferentKernel"} :
          KernelInstallResponded(response)
    \/ \E err \in Errors, context \in {"start", "execution"}, localInterpreter \in BOOLEAN,
          failureInfo \in {"none", "ipykernel", "other"} :
              GetErrorMessageForDisplayInCell(err, context, localInterpreter, failureInfo)
    \/ \E installed \in BOOLEAN : CellDependenciesChecked(installed)

SpecErrors == Init /\ [][NextErrors]_vars

----------------------------------------------------------------------------
(***************************************************************************)
(* NotebookCommunication                                                   *)
(***************************************************************************)

\* changeController: nothing for the controller it has; else the handler of
\* the old controller is disposed and one is registered with the new one.
ChangeController(controller) ==
    /\ ~comm.disposed
    /\ comm' = IF comm.controller = controller THEN comm
               ELSE [comm EXCEPT !.controller = controller, !.handler = controller]
    /\ comm' # comm
    /\ UNCHANGED <<controllerMessages, received, delivered, notCommVars>>

\* A mutant of the test of the handler: the editor is not looked at.
HandlesAnyEditor(controller, editor) == comm.controller = controller

\* The test of the handler registered for controller:
\* e.editor === this.editor && this.controller === controller.
Handles(controller, editor) == editor = "own" /\ comm.controller = controller

\* A message object is truthy.
Truthy(message) == message # 0

\* sendPendingMessages: messages are shifted off the buffer and fired until
\* the buffer is empty or the message shifted is falsy.  The result is what
\* was fired and what is left.
RECURSIVE sendPendingMessages(_, _)
sendPendingMessages(pending, fired) ==
    IF pending = << >> THEN [fired |-> fired, pending |-> << >>]
    ELSE IF Truthy(Head(pending))
         THEN sendPendingMessages(Tail(pending), Append(fired, Head(pending)))
         ELSE [fired |-> fired, pending |-> Tail(pending)]

\* A controller sends a message for an editor.  The handler, when it is
\* registered with that controller and the test passes, fires the pending
\* messages and then this one when the listener is hooked up, and buffers
\* the message when not.  Messages are numbered as they are sent.
ControllerMessage(controller, editor) ==
    /\ Len(controllerMessages) < MaxMessages
    /\ LET message == Len(controllerMessages) + 1
           sent == sendPendingMessages(comm.pendingMessages, << >>)
       IN /\ controllerMessages' =
                Append(controllerMessages,
                       [controller |-> controller, editor |-> editor,
                        active |-> comm.controller])
          /\ received' = IF controller = comm.controller /\ editor = "own" /\ ~comm.disposed
                         THEN Append(received, message) ELSE received
          /\ IF comm.handler = controller /\ Handles(controller, editor)
             THEN IF comm.eventHandlerListening
                  THEN /\ delivered' = (delivered \o sent.fired) \o <<message>>
                       /\ comm' = [comm EXCEPT !.pendingMessages = sent.pending]
                  ELSE /\ delivered' = delivered
                       /\ comm' = [comm EXCEPT !.pendingMessages = Append(@, message)]
             ELSE UNCHANGED <<comm, delivered>>
    /\ UNCHANGED notCommVars

\* The consumer takes onDidReceiveMessage and registers its listener: the
\* getter sets the flag and starts a timeout of 0 that will send the pending
\* messages.
OnDidReceiveMessage ==
    /\ ~comm.eventHandlerListening
    /\ comm' = [comm EXCEPT !.eventHandlerListening = TRUE, !.timer = TRUE]
    /\ UNCHANGED <<controllerMessages, received, delivered, notCommVars>>

\* The timeout of the getter fires: sendPendingMessages.
TimeoutFires ==
    /\ comm.timer
    /\ LET sent == sendPendingMessages(comm.pendingMessages, << >>)
       IN /\ delivered' = delivered \o sent.fired
          /\ comm' = [comm EXCEPT !.timer = FALSE, !.pendingMessages = sent.pending]
    /\ UNCHANGED <<controllerMessages, received, notCommVars>>

\* NotebookCommunication.dispose: the handler is disposed; the coordinator
\* drops the communication.
CommDispose ==
    /\ ~comm.disposed
    /\ comm' = [comm EXCEPT !.disposed = TRUE, !.handler = "none"]
    /\ UNCHANGED <<controllerMessages, received, delivered, notCommVars>>

NextComm ==
    \/ \E controller \in Controllers : ChangeController(controller)
    \/ \E controller \in Controllers, editor \in Editors : ControllerMessage(controller, editor)
    \/ OnDidReceiveMessage
    \/ TimeoutFires
    \/ CommDispose

SpecComm == Init /\ [][NextComm]_vars

----------------------------------------------------------------------------
\* JupyterSessionManager.initialize and startNew on one instance
\* (src/kernels/jupyter/session/jupyterSessionManager.node.ts)

\* initialize after the await of getServerConnectSettings (lines 114-121):
\* the settings are kept and the four lab managers are constructed.  When
\* getServerConnectSettings rejected, initialize rejects at the await and
\* this never runs.
InitializeFinish(m) ==
    /\ managers[m].pc = "ready"
    /\ ~initialized[m].labManagers
    /\ initialized' = [initialized EXCEPT ![m] = [@ EXCEPT !.labManagers = TRUE]]
    /\ UNCHANGED notInitializeVars

\* A mutant of the guard of startNew: only connInfo is tested.
CanStartNewOnConnInfoOnly(m) == managers[m].pc # "new"

\* The guard of startNew (lines 175-183) on instance m: connInfo is set from
\* the start of initialize on (line 113), the settings and the lab managers
\* only once initialize has passed its await.
CanStartNewOn(m) ==
    /\ managers[m].pc # "new"
    /\ managers[m].serverSettings
    /\ initialized[m].labManagers

\* startNew on instance m up to the end of its guard (lines 175-183): it
\* throws SessionDisposedError, or goes on to construct a session.
StartNewOn(m) ==
    /\ LET call == [initialized[m] EXCEPT
                       !.startNew = IF CanStartNewOn(m) THEN "session"
                                    ELSE "SessionDisposedError",
                       !.afterFailure = (managers[m].pc = "failed")]
       IN /\ call # initialized[m]
          /\ initialized' = [initialized EXCEPT ![m] = call]
    /\ UNCHANGED notInitializeVars

\* Two manager instances initialize, against any connection, and startNew is
\* called on them at any time.
NextInitialize ==
    \/ \E m \in {1, 2}, connInfo \in Connections, failOnPassword \in BOOLEAN :
          GetServerConnectSettings(m, connInfo, failOnPassword)
    \/ \E p \in 1..Len(prompts), response \in Responses :
          InsecureServerWarningAnswered(p, response)
    \/ \E m \in {1, 2} : SecureConnectionChecked(m)
    \/ \E m \in {1, 2}, pwSettings \in {"requestHeaders", "noHeaders", "undefined"} :
          PasswordConnectionInfo(m, pwSettings)
    \/ \E m \in {1, 2} : InitializeFinish(m)
    \/ \E m \in {1, 2} : StartNewOn(m)

SpecInitialize == Init /\ [][NextInitialize]_vars

----------------------------------------------------------------------------
(***************************************************************************)
(* NotebookIPyWidgetCoordinator                                            *)
(***************************************************************************)

\* The maps the handlers of the coordinator work on, as one value.
CoordinatorState ==
    [comms |-> notebookCommunications, coordinators |-> messageCoordinators,
     creates |-> coordinatorCreates]

\* A mutant of the lookup: no coordinator is ever found.
RegisteredNever(S, document) == FALSE

\* this.messageCoordinators.get(document) !== undefined (lines 175-176).
Registered(S, document) == S.coordinators[document]

\* resolveKernel (lines 168-185) up to its return: a coordinator is created
\* and registered for the document when none is registered.
resolveKernel(S, document) ==
    IF Registered(S, document) THEN S
    ELSE [S EXCEPT !.coordinators[document] = TRUE, !.creates[document] = @ + 1]

\* initializeNotebookCommunication (lines 145-167): nothing without a
\* controller or when the editor has a communication object; else a new one,
\* bound to the controller, and resolveKernel for the editor's document.
initializeNotebookCommunication(S, editor, controller) ==
    IF controller = "none" THEN S
    ELSE IF S.comms[editor] # NoComm THEN S
    ELSE resolveKernel([S EXCEPT !.comms[editor] = [controller |-> controller,
                                                    disposed |-> FALSE]],
                       EditorDocuments[editor])

\* forEach over editors, in the order of their ids from editor on;
\* controllerOf gives the controller each is initialized with.
RECURSIVE InitializeEditors(_, _, _, _)
InitializeEditors(S, editors, editor, controllerOf) ==
    IF editor > Len(EditorDocuments) THEN S
    ELSE InitializeEditors(
             IF editor \in editors
             THEN initializeNotebookCommunication(S, editor, controllerOf[editor])
             ELSE S,
             editors, editor + 1, controllerOf)

\* this.notebookEditors.get(document) || [] (lines 136, 200): nothing ever
\* writes that map, so the list is empty.
CoordinatorEditorsOf(document) == {}

\* A notebook editor comes into being (a notebook is opened, or an editor is
\* split).  Each editor exists once.
OpenNotebookEditor(editor) ==
    /\ editor \notin notebookEditors
    /\ notebookCommunications[editor] = NoComm
    /\ \A other \in EditorIds : other < editor /\ EditorDocuments[other] = EditorDocuments[editor]
                                    => other \in notebookEditors
    /\ notebookEditors' = notebookEditors \cup {editor}
    /\ UNCHANGED <<selectedControllers, messageCoordinators, notebookCommunications,
                   coordinatorCreates, notCoordinatorVars>>

\* onDidChangeVisibleNotebookEditors (lines 191-198) with the visible editors
\* e: each is initialized with the controller selected for its document.
OnDidChangeVisibleNotebookEditors(e) ==
    /\ e \subseteq notebookEditors
    /\ LET S == InitializeEditors(CoordinatorState, e, 1,
                                  [editor \in EditorIds |->
                                      selectedControllers[EditorDocuments[editor]]])
       IN /\ notebookCommunications' = S.comms
          /\ messageCoordinators' = S.coordinators
          /\ coordinatorCreates' = S.creates
    /\ UNCHANGED <<notebookEditors, selectedControllers, notCoordinatorVars>>

\* onDidSelectController (lines 116-144) for the selection of controller for
\* notebook.  A registered coordinator of the notebook is forgotten and
\* disposed, with the communication objects of the notebook's editors; the
\* communication objects of this.notebookEditors get the controller; and
\* every notebook editor there is is initialized with the controller.
OnDidSelectController(notebook, controller) ==
    /\ LET previous == messageCoordinators[notebook]
           S0 == [CoordinatorState EXCEPT !.creates[notebook] = 0]
           S1 == IF previous
                 THEN [S0 EXCEPT
                          !.coordinators[notebook] = FALSE,
                          !.comms = [editor \in EditorIds |->
                                        IF editor \in notebookEditors
                                           /\ EditorDocuments[editor] = notebook
                                        THEN NoComm ELSE @[editor]]]
                 ELSE S0
           S2 == [S1 EXCEPT
                     !.comms = [editor \in EditorIds |->
                                   IF editor \in CoordinatorEditorsOf(notebook)
                                      /\ @[editor] # NoComm
                                   THEN [@[editor] EXCEPT !.controller = controller]
                                   ELSE @[editor]]]
           S3 == InitializeEditors(S2, notebookEditors, 1,
                                   [editor \in EditorIds |-> controller])
       IN /\ notebookCommunications' = S3.comms
          /\ messageCoordinators' = S3.coordinators
          /\ coordinatorCreates' = S3.creates
    /\ selectedControllers' = [selectedControllers EXCEPT ![notebook] = controller]
    /\ <<selectedControllers', notebookCommunications', messageCoordinators',
         coordinatorCreates'>> #
       <<selectedControllers, notebookCommunications, messageCoordinators, coordinatorCreates>>
    /\ UNCHANGED <<notebookEditors, notCoordinatorVars>>

\* onDidCloseNotebookDocument (lines 199-209) for a notebook whose editors
\* are gone: its disposables, the communication objects among them, are
\* disposed, and its coordinator is disposed and forgotten.
OnDidCloseNotebookDocument(notebook) ==
    /\ \E editor \in notebookEditors : EditorDocuments[editor] = notebook
    /\ notebookEditors' = {editor \in notebookEditors : EditorDocuments[editor] # notebook}
    /\ notebookCommunications' =
          [editor \in EditorIds |->
              IF EditorDocuments[editor] = notebook /\ notebookCommunications[editor] # NoComm
              THEN [notebookCommunications[editor] EXCEPT !.disposed = TRUE]
              ELSE notebookCommunications[editor]]
    /\ messageCoordinators' = [messageCoordinators EXCEPT ![notebook] = FALSE]
    /\ coordinatorCreates' = [coordinatorCreates EXCEPT ![notebook] = 0]
    /\ selectedControllers' = [selectedControllers EXCEPT ![notebook] = "none"]
    /\ UNCHANGED notCoordinatorVars

NextCoordinator ==
    \/ \E editor \in EditorIds : OpenNotebookEditor(editor)
    \/ \E e \in SUBSET EditorIds : OnDidChangeVisibleNotebookEditors(e)
    \/ \E notebook \in Documents, controller \in Controllers :
          OnDidSelectController(notebook, controller)
    \/ \E notebook \in Documents : OnDidCloseNotebookDocument(notebook)

SpecCoordinator == Init /\ [][NextCoordinator]_vars

----------------------------------------------------------------------------
(***************************************************************************)
(* InteractiveWindowProvider                                               *)
(***************************************************************************)

\* The user changes the interactiveWindowMode setting.
UpdateModeSetting(mode) ==
    /\ windowProvider.mode # mode
    /\ windowProvider' = [windowProvider EXCEPT !.mode = mode]
    /\ UNCHANGED <<windows, pendingCreations, windowCalls, notWindowVars>>

\* onDidChangeViewState of a window (raiseOnDidChangeActiveInteractiveWindow):
\* the active window, when there is one, becomes the last active one.
RaiseOnDidChangeActiveInteractiveWindow(active) ==
    /\ active \in 1..Len(windows)
    /\ windowProvider.lastActive # active
    /\ windowProvider' = [windowProvider EXCEPT !.lastActive = active]
    /\ UNCHANGED <<windows, pendingCreations, windowCalls, notWindowVars>>

\* getOrCreate is called: the wrapper of the chainable decorator takes the
\* call.  Calls are issued in index order.
GetOrCreateWindow(i, resource) ==
    /\ windowCalls[i].pc = "idle"
    /\ \A h \in WindowCallIds : h < i => windowCalls[h].pc # "idle"
    /\ windowCalls' = [windowCalls EXCEPT ![i] =
                          [NoWindowCall EXCEPT
                              !.pc = "chained", !.resource = resource,
                              !.overlapping = \E h \in WindowCallIds :
                                                 h < i /\ windowCalls[h].pc # "done"]]
    /\ UNCHANGED <<windows, pendingCreations, windowProvider, notWindowVars>>

\* The chainable decorator: the method runs for a call once every call taken
\* before it has settled.
ChainAllows(i) == \A h \in WindowCallIds : h < i => windowCalls[h].pc = "done"

\* The chainable decorator, for a call taken while an earlier one was under
\* way that then rejected: the call rejects without running the method.
GetOrCreateWindowChainRejected(i) ==
    /\ windowCalls[i].pc = "chained"
    /\ ChainAllows(i)
    /\ \E h \in WindowCallIds : h < i /\ windowCalls[h].rejected
    /\ windowCalls' = [windowCalls EXCEPT ![i] = [@ EXCEPT !.pc = "done", !.rejected = TRUE]]
    /\ UNCHANGED <<windows, pendingCreations, windowProvider, notWindowVars>>

\* getOrCreate up to the await in getInteractiveMode (lines 131-139, 267-296):
\* an untrusted workspace throws; the mode is the setting; with the default
\* mode, a file, one window of another file and the question not yet asked,
\* the question is asked.
GetOrCreateWindowRun(i, isTrusted) ==
    /\ windowCalls[i].pc = "chained"
    /\ ChainAllows(i)
    /\ LET resource == windowCalls[i].resource
           asks == /\ windowProvider.mode = "multiple"
                   /\ resource # "none"
                   /\ ~windowProvider.asked
                   /\ Len(windows) = 1
                   /\ windows[1].owner # resource
       IN IF ~isTrusted
          THEN /\ windowCalls' = [windowCalls EXCEPT ![i] =
                                     [@ EXCEPT !.pc = "done", !.rejected = TRUE]]
               /\ UNCHANGED windowProvider
          ELSE /\ windowCalls' = [windowCalls EXCEPT ![i] =
                                     [@ EXCEPT !.pc = IF asks THEN "question" ELSE "mode",
                                               !.mode = windowProvider.mode]]
               /\ windowProvider' = [windowProvider EXCEPT !.asked = @ \/ asks]
    /\ UNCHANGED <<windows, pendingCreations, notWindowVars>>

\* getInteractiveMode after the question (lines 286-295): on yes the mode is
\* perFile, for this call and in the setting.
ModeQuestionAnswered(i, yes) ==
    /\ windowCalls[i].pc = "question"
    /\ windowCalls' = [windowCalls EXCEPT ![i] =
                          [@ EXCEPT !.pc = "mode", !.mode = IF yes THEN "perFile" ELSE @]]
    /\ windowProvider' = [windowProvider EXCEPT !.mode = IF yes THEN "perFile" ELSE @]
    /\ UNCHANGED <<windows, pendingCreations, notWindowVars>>

\* A mutant of the match: no window is ever found.
getExistingNothing(owner, interactiveMode, active) == 0

\* getExisting (lines 298-321) for a call without a connection: the index of
\* the window it returns, 0 for undefined.  active is the window of the
\* active notebook editor (0: none).
getExisting(owner, interactiveMode, active) ==
    CASE interactiveMode = "single" -> IF Len(windows) > 0 THEN 1 ELSE 0
      [] interactiveMode = "multiple" ->
            IF owner = "none" THEN 0
            ELSE IF active # 0 THEN active
            ELSE IF windowProvider.lastActive # 0 THEN windowProvider.lastActive
            ELSE IF Len(windows) > 0 THEN 1 ELSE 0
      [] OTHER ->
            LET matches == {w \in 1..Len(windows) : windows[w].owner = owner}
            IN IF matches = {} THEN 0
               ELSE CHOOSE w \in matches : \A v \in matches : w <= v

\* getOrCreate after getInteractiveMode (lines 141-153), up to the first
\* await of create (lines 170-183).  With creations pending the call waits
\* for them; under the chain none is ever pending here, since a creation
\* ends before its call does.  Else the window that exists is returned, or a
\* creation is begun and recorded as pending.
GetOrCreateWindowLookup(i, active) ==
    /\ windowCalls[i].pc = "mode"
    /\ active \in 0..Len(windows)
    /\ LET existing == getExisting(windowCalls[i].resource, windowCalls[i].mode, active)
       IN IF pendingCreations # {}
          THEN /\ windowCalls' = [windowCalls EXCEPT ![i] = [@ EXCEPT !.pc = "waiting"]]
               /\ UNCHANGED pendingCreations
          ELSE IF existing # 0
          THEN /\ windowCalls' = [windowCalls EXCEPT ![i] =
                                     [@ EXCEPT !.pc = "done", !.result = existing]]
               /\ UNCHANGED pendingCreations
          ELSE /\ windowCalls' = [windowCalls EXCEPT ![i] = [@ EXCEPT !.pc = "creating"]]
               /\ pendingCreations' = pendingCreations \cup {i}
    /\ UNCHANGED <<windows, windowProvider, notWindowVars>>

\* create after its awaits (lines 184-228): the window is constructed, added
\* to the windows and made the last active one, or the controller or the
\* editor failed; in both cases the creation leaves the pending ones.
CreateWindowFinish(i, ok) ==
    /\ windowCalls[i].pc = "creating"
    /\ IF ok
       THEN /\ windows' = Append(windows, [owner |-> windowCalls[i].resource])
            /\ windowProvider' = [windowProvider EXCEPT !.lastActive = Len(windows) + 1]
            /\ windowCalls' = [windowCalls EXCEPT ![i] =
                                  [@ EXCEPT !.pc = "done", !.result = Len(windows) + 1,
                                            !.constructed = TRUE]]
       ELSE /\ windowCalls' = [windowCalls EXCEPT ![i] =
                                  [@ EXCEPT !.pc = "done", !.rejected = TRUE]]
            /\ UNCHANGED <<windows, windowProvider>>
    /\ pendingCreations' = pendingCreations \ {i}
    /\ UNCHANGED notWindowVars

NextWindow ==
    \/ \E mode \in InteractiveWindowModes : UpdateModeSetting(mode)
    \/ \E active \in 1..Len(windows) : RaiseOnDidChangeActiveInteractiveWindow(active)
    \/ \E i \in WindowCallIds, resource \in Resources : GetOrCreateWindow(i, resource)
    \/ \E i \in WindowCallIds : GetOrCreateWindowChainRejected(i)
    \/ \E i \in WindowCallIds, isTrusted \in BOOLEAN : GetOrCreateWindowRun(i, isTrusted)
    \/ \E i \in WindowCallIds, yes \in BOOLEAN : ModeQuestionAnswered(i, yes)
    \/ \E i \in WindowCallIds, active \in 0..Len(windows) : GetOrCreateWindowLookup(i, active)
    \/ \E i \in WindowCallIds, ok \in BOOLEAN : CreateWindowFinish(i, ok)

SpecWindow == Init /\ [][NextWindow]_vars

----------------------------------------------------------------------------
(***************************************************************************)
(* sendTelemetryEvent (telemetry/index)                                    *)
(***************************************************************************)

\* sharedProperties['isInsiderExtension'] === 'true': the insiders build.
IsInsiderExtension == TRUE

\* The queue, the handlers and the events sent, as one value.
TelemetryState ==
    [queue |-> queuedTelemetry, handlers |-> telemetryHandlers, sent |-> telemetrySent]

\* sendNextTelemetryItem without the body of sendThisTelemetryItem: with an
\* empty queue nothing; a first item with a promise gets a timer of 30
\* seconds and a finally callback (lines 209-212); a first item without one is
\* sent at once, and so on with the rest.
RECURSIVE sendNextTelemetryItem(_)
sendNextTelemetryItem(S) ==
    IF S.queue = << >> THEN S
    ELSE LET nextItem == Head(S.queue)
         IN IF nextItem.queueEverythingUntilCompleted
            THEN [S EXCEPT !.handlers = Append(@, [item |-> nextItem.event, timer |-> "set",
                                                   finally |-> "waiting"])]
            ELSE sendNextTelemetryItem([S EXCEPT !.queue = Tail(@),
                                                 !.sent = Append(@, nextItem.event)])

\* A mutant of the test of line 193: the first item of the queue is taken
\* for the item of the handler.
IsNextItemAnyHead(queue, nextItem) == queue # << >>

\* The test of line 193, negated: the queue still begins with the item of
\* the handler.
IsNextItem(queue, nextItem) == queue # << >> /\ Head(queue).event = nextItem

\* sendThisTelemetryItem (lines 188-206) of handler h after its timer was
\* cleared: when its item is still the first of the queue, the item is
\* shifted and sent, and sendNextTelemetryItem goes on with the rest; the
\* item sent is the first of the queue.
sendThisTelemetryItem(S, h) ==
    IF IsNextItem(S.queue, S.handlers[h].item)
    THEN sendNextTelemetryItem([S EXCEPT !.queue = Tail(@),
                                         !.sent = Append(@, Head(S.queue).event)])
    ELSE S

\* sendTelemetryEvent (lines 150-180) for the next event, with or without a
\* waitBeforeSending promise: in the insiders build an event with a promise,
\* and any event while the queue is not empty, is queued and
\* sendNextTelemetryItem is called; else it is sent at once.
SendTelemetryEvent(e, wait) ==
    /\ ~telemetryEvents[e].submitted
    /\ \A d \in TelemetryEvents : d < e => telemetryEvents[d].submitted
    /\ telemetryEvents' = [telemetryEvents EXCEPT ![e] = [submitted |-> TRUE, wait |-> wait]]
    /\ LET S == IF IsInsiderExtension /\ (wait # "none" \/ Len(queuedTelemetry) # 0)
                THEN sendNextTelemetryItem(
                         [TelemetryState EXCEPT
                             !.queue = Append(@, [event |-> e,
                                                  queueEverythingUntilCompleted |->
                                                      wait # "none"])])
                ELSE [TelemetryState EXCEPT !.sent = Append(@, e)]
       IN /\ queuedTelemetry' = S.queue
          /\ telemetryHandlers' = S.handlers
          /\ telemetrySent' = S.sent
    /\ UNCHANGED notTelemetryVars

\* The waitBeforeSending promise of a submitted event settles.
WaitSettles(e) ==
    /\ telemetryEvents[e].wait = "pending"
    /\ telemetryEvents' = [telemetryEvents EXCEPT ![e] = [@ EXCEPT !.wait = "settled"]]
    /\ UNCHANGED <<queuedTelemetry, telemetryHandlers, telemetrySent, notTelemetryVars>>

\* The finally callback of handler h runs (line 211), its promise having
\* settled: the timer of the handler is cleared and its item sent.
FinallyRuns(h) ==
    /\ h \in 1..Len(telemetryHandlers)
    /\ telemetryHandlers[h].finally = "waiting"
    /\ telemetryEvents[telemetryHandlers[h].item].wait = "settled"
    /\ LET S == sendThisTelemetryItem(
                    [TelemetryState EXCEPT
                        !.handlers[h] = [@ EXCEPT !.finally = "run",
                                                  !.timer = IF @ = "set" THEN "cleared" ELSE @]],
                    h)
       IN /\ queuedTelemetry' = S.queue
          /\ telemetryHandlers' = S.handlers
          /\ telemetrySent' = S.sent
    /\ UNCHANGED <<telemetryEvents, notTelemetryVars>>

\* The timer of handler h fires after 30 seconds (line 209).
TelemetryTimerFires(h) ==
    /\ h \in 1..Len(telemetryHandlers)
    /\ telemetryHandlers[h].timer = "set"
    /\ LET S == sendThisTelemetryItem(
                    [TelemetryState EXCEPT !.handlers[h] = [@ EXCEPT !.timer = "fired"]], h)
       IN /\ queuedTelemetry' = S.queue
          /\ telemetryHandlers' = S.handlers
          /\ telemetrySent' = S.sent
    /\ UNCHANGED <<telemetryEvents, notTelemetryVars>>

NextTelemetry ==
    \/ \E e \in TelemetryEvents, wait \in {"none", "pending"} : SendTelemetryEvent(e, wait)
    \/ \E e \in TelemetryEvents : WaitSettles(e)
    \/ \E h \in 1..Len(telemetryHandlers) : FinallyRuns(h)
    \/ \E h \in 1..Len(telemetryHandlers) : TelemetryTimerFires(h)

SpecTelemetry == Init /\ [][NextTelemetry]_vars

\* Every timer that is set fires after its 30 seconds, and the finally
\* callback of a settled promise runs.
SpecTelemetryLive ==
    /\ SpecTelemetry
    /\ WF_telemetryVars(\E h \in 1..Len(telemetryHandlers) : TelemetryTimerFires(h))
    /\ WF_telemetryVars(\E h \in 1..Len(telemetryHandlers) : FinallyRuns(h))

-----------------------------------------------------------------------------
\* KernelFinder.isValidCachedKernel

\* String.prototype.includes: t occurs in s.
Includes(s, t) ==
    \E i \in 1..(Len(s) + 1) :
        i + Len(t) - 1 <= Len(s) /\ SubSeq(s, i, i + Len(t) - 1) = t

\* fs.localFileExists(path).
localFileExists(files, path) == path \in files

\* isValidCachedKernel(kernel) with the files and the server URI it sees.
\* For a local kernel spec the callback of promiseSpec.then is
\*   r && kernel.interpreter ? localFileExists(interpreter) : Promise.resolve(true)
\* where the conditional operator binds weaker than &&: the condition is
\* (r && kernel.interpreter).
isValidCachedKernel(kernel, files, uri) ==
    CASE kernel.kind \in {"startUsingRemoteKernelSpec", "connectToLiveRemoteKernel"} ->
            Includes(uri, kernel.baseUrl)
      [] kernel.kind = "startUsingPythonInterpreter" ->
            localFileExists(files, kernel.interpreter)
      [] kernel.kind = "startUsingLocalKernelSpec" ->
            LET promiseSpec == IF kernel.specFile # ""
                               THEN localFileExists(files, kernel.specFile)
                               ELSE TRUE
                r == promiseSpec
            IN IF r /\ kernel.interpreter # ""
               THEN localFileExists(files, kernel.interpreter)
               ELSE TRUE
      [] OTHER -> TRUE

\* A file is removed from the disk.
LocalFileRemoved(path) ==
    /\ path \in localFiles
    /\ localFiles' = localFiles \ {path}
    /\ UNCHANGED <<storedUri, validatedKernel>>
    /\ UNCHANGED notValidationVars

\* A file is put (back) on the disk.
LocalFileCreated(path) ==
    /\ path \notin localFiles
    /\ localFiles' = localFiles \cup {path}
    /\ UNCHANGED <<storedUri, validatedKernel>>
    /\ UNCHANGED notValidationVars

\* The user selects another server.
ServerUriChanged(uri) ==
    /\ uri # storedUri
    /\ storedUri' = uri
    /\ UNCHANGED <<localFiles, validatedKernel>>
    /\ UNCHANGED notValidationVars

\* One call of isValidCachedKernel on a kernel of the cache.
IsValidCachedKernel(kernel) ==
    /\ validatedKernel' =
           [kernel |-> kernel,
            files |-> localFiles,
            result |-> IF isValidCachedKernel(kernel, localFiles, storedUri)
                       THEN "valid" ELSE "invalid"]
    /\ UNCHANGED <<localFiles, storedUri>>
    /\ UNCHANGED notValidationVars

NextValidation ==
    \/ \E path \in LocalPaths : LocalFileRemoved(path)
    \/ \E path \in LocalPaths : LocalFileCreated(path)
    \/ \E uri \in ServerUris : ServerUriChanged(uri)
    \/ \E kernel \in CachedKernels : IsValidCachedKernel(kernel)

SpecValidation == Init /\ [][NextValidation]_vars

-----------------------------------------------------------------------------
\* PlotViewer.exportPlot, saveSvgToPdf

\* The ExportPlot message arrives: exportPlot runs up to the save dialog
\* (lines 125-133).
ExportPlot(i) ==
    /\ exportCalls[i].pc = "idle"
    /\ \A j \in ExportCallIds : j < i => exportCalls[j].pc # "idle"
    /\ exportCalls' = [exportCalls EXCEPT ![i].pc = "dialog"]
    /\ UNCHANGED notExportVars

\* The listener saveSvgToPdf registers for the 'finish' event of the write
\* stream (line 175): () => deferred.resolve.  Its body is the expression
\* deferred.resolve, a reference to the method, which is not called: the
\* deferred is as before.
finishListener(deferred) == deferred

\* The save dialog is answered (lines 133-156).  Without a file the call is
\* over.  For .pdf saveSvgToPdf runs up to its await (lines 164-182): SVGtoPDF
\* may throw, which the catch of exportPlot reports; else the document is
\* piped to the write stream and ended, and the deferred is awaited.  For .png
\* and .svg (and anything else) writeLocalFile is awaited.
SaveDialogAnswered(i, file, svgToPdfThrows) ==
    /\ exportCalls[i].pc = "dialog"
    /\ exportCalls' =
           [exportCalls EXCEPT ![i] =
               CASE file = "none" -> [@ EXCEPT !.pc = "done", !.outcome = "cancelled"]
                 [] file = ".pdf" /\ svgToPdfThrows ->
                        [@ EXCEPT !.pc = "done", !.ext = file, !.ws = "open",
                                  !.deferred = "pending", !.outcome = "failed"]
                 [] file = ".pdf" /\ ~svgToPdfThrows ->
                        [@ EXCEPT !.pc = "awaitDeferred", !.ext = file, !.ws = "open",
                                  !.deferred = "pending"]
                 [] OTHER -> [@ EXCEPT !.pc = "writing", !.ext = file]]
    /\ UNCHANGED notExportVars

\* The write stream has flushed the document and emits 'finish': its listener
\* runs.
WriteStreamFinishes(i) ==
    /\ exportCalls[i].pc = "awaitDeferred"
    /\ exportCalls[i].ws = "open"
    /\ exportCalls' = [exportCalls EXCEPT ![i].ws = "finished",
                                          ![i].deferred = finishListener(@)]
    /\ UNCHANGED notExportVars

\* fs.writeLocalFile settles (lines 147, 153).
WriteLocalFileSettles(i, ok) ==
    /\ exportCalls[i].pc = "writing"
    /\ exportCalls' = [exportCalls EXCEPT ![i].pc = "written",
                                          ![i].outcome = IF ok THEN "saved" ELSE "failed"]
    /\ UNCHANGED notExportVars

\* exportPlot goes on after the promise it awaits has settled: that of
\* writeLocalFile, or that of saveSvgToPdf, which settles when the deferred
\* of line 182 is resolved.
AwaitResumes(i) ==
    /\ \/ exportCalls[i].pc = "written"
       \/ exportCalls[i].pc = "awaitDeferred" /\ exportCalls[i].deferred = "resolved"
    /\ exportCalls' =
           [exportCalls EXCEPT ![i].pc = "done",
                               ![i].outcome = IF exportCalls[i].pc = "written"
                                              THEN @ ELSE "saved"]
    /\ UNCHANGED notExportVars

NextExport ==
    \/ \E i \in ExportCallIds : ExportPlot(i)
    \/ \E i \in ExportCallIds, file \in SaveDialogAnswers, svgToPdfThrows \in BOOLEAN :
          SaveDialogAnswered(i, file, svgToPdfThrows)
    \/ \E i \in ExportCallIds : WriteStreamFinishes(i)
    \/ \E i \in ExportCallIds, ok \in BOOLEAN : WriteLocalFileSettles(i, ok)
    \/ \E i \in ExportCallIds : AwaitResumes(i)

\* The write stream finishes, writeLocalFile settles and the continuations
\* run; the user may leave the dialog open.
SpecExportLive ==
    /\ Init
    /\ [][NextExport]_vars
    /\ \A i \in ExportCallIds :
          /\ WF_exportVars(WriteStreamFinishes(i))
          /\ WF_exportVars(\E ok \in BOOLEAN : WriteLocalFileSettles(i, ok))
          /\ WF_exportVars(AwaitResumes(i))

----------------------------------------------------------------------------
(***************************************************************************)
(* ServerCache: properties                                                 *)
(***************************************************************************)

\* Call i makes its lookup in this step.
LooksUp(i) == calls[i].pc = "options" /\ calls'[i].pc = "attached"

\* The calls that have returned.
Done(i) == calls[i].pc = "done"

\* C1 as stated: calls with equal normalized keys that are all issued before
\* the first call's creation promise settles cause one createFunction
\* invocation.  A call that was issued (and waiting for its options) when a
\* promise of its key settled never invokes createFunction itself.
C1_SingleFlightForCallsIssuedBeforeSettle ==
    \A i \in CallIds : calls[i].early => ~calls[i].creator

\* C1, amended: getOrCreate is single-flight from its cache lookup on.  A call
\* whose lookup finds an entry for its normalized key invokes no
\* createFunction and takes the promise of that entry; a call that finds none
\* invokes createFunction once and inserts the entry in the same step; and
\* all the calls that hold the same entry return the same outcome (the same
\* server, or undefined, or the failure).
C1_SameOutcome ==
    \A i, j \in CallIds :
        (Done(i) /\ Done(j) /\ calls[i].data = calls[j].data)
            => /\ calls[i].result = calls[j].result
               /\ calls[i].result = "server" <=> created[calls[i].data].state = "server"

C1_LookupStep ==
    \A i \in CallIds :
        LooksUp(i) =>
            LET key == KeyOf(calls[i].options)
            IN IF cache[key] # 0
               THEN /\ created' = created
                    /\ cache' = cache
                    /\ calls'[i].data = cache[key]
               ELSE /\ Len(created') = Len(created) + 1
                    /\ cache'[key] = Len(created')
                    /\ calls'[i].data = Len(created')
                    /\ created'[Len(created')].state = "pending"

C1_SingleFlightWhileCached == []C1_SameOutcome /\ [][C1_LookupStep]_vars

\* Two calls with different options and equal normalized keys have returned
\* the same server of the one creation there is.
C1_Witness ==
    /\ Len(created) = 1
    /\ \E i, j \in CallIds :
          /\ i # j /\ Done(i) /\ Done(j)
          /\ calls[i].result = "server" /\ calls[j].result = "server"
          /\ calls[i].data = 1 /\ calls[j].data = 1

\* The failure of creation c has been delivered to a caller.
FailureObserved(c) ==
    \E i \in CallIds : Done(i) /\ calls[i].data = c /\ calls[i].result \in {"error", "undefined"}

C2_State ==
    \A i \in CallIds :
        Done(i) =>
            LET c == calls[i].data
            IN /\ created[c].state = "rejected" <=> calls[i].result = "error"
               /\ created[c].state = "none" <=> calls[i].result = "undefined"
               /\ calls[i].result \in {"error", "undefined"} => cache[calls[i].key] # c

C2_LookupStep ==
    \A i \in CallIds :
        LooksUp(i) =>
            /\ ~FailureObserved(calls'[i].data)
            /\ cache[KeyOf(calls[i].options)] = 0 => calls'[i].creator

C3_DisposedServerNeverServed ==
    /\ \A o \in OptionSet : get(o) # 0 => ~ServerDisposed(get(o))
    /\ \A i \in CallIds : ~calls[i].stale
    /\ \A c \in 1..Len(created) :
          (ServerDisposed(c) /\ \A d \in 1..Len(created) : d > c => created[d].key # created[c].key)
              => cache[created[c].key] = 0

\* A server was returned and disposed, and a later call of the same key
\* invoked createFunction again.
C3_Witness ==
    \E i, j \in CallIds :
        /\ Done(i) /\ calls[i].result = "server" /\ ServerDisposed(calls[i].data)
        /\ calls[j].pc # "idle" /\ calls[j].creator
        /\ calls[j].key = calls[i].key /\ calls[j].data > calls[i].data

----------------------------------------------------------------------------
(***************************************************************************)
(* KernelProvider: properties                                              *)
(***************************************************************************)

\* The live (undisposed) kernels of an identity.
LiveKernels(uri) ==
    { k \in 1..Len(kernels) : kernels[k].uri = uri /\ ~kernels[k].disposed }

\* Event e is in the event sequence, and where.
Fired(e) == \E n \in 1..Len(kernelEvents) : kernelEvents[n] = e
EventIndex(e) == CHOOSE n \in 1..Len(kernelEvents) : kernelEvents[n] = e

\* C4: in every reachable state there is at most one live Kernel per document
\* identity, it is the one the provider records for the identity, and every
\* kernel constructed for an identity was constructed after the disposed
\* events of all the earlier kernels of that identity.  getOrCreate decides,
\* disposes, constructs and records in one step.
C4_AtMostOneLiveKernel ==
    /\ \A uri \in Uris :
          /\ Cardinality(LiveKernels(uri)) <= 1
          /\ \A k \in LiveKernels(uri) : get_kernel(uri) = k
    /\ \A k1, k2 \in 1..Len(kernels) :
          (k1 < k2 /\ kernels[k1].uri = kernels[k2].uri)
              => /\ Fired(<<"disposed", k1>>)
                 /\ EventIndex(<<"disposed", k1>>) < EventIndex(<<"created", k2>>)

\* Two kernels were constructed for one identity, by two requests with
\* different connection ids; the first is disposed and the second is live.
C4_Witness ==
    \E k1, k2 \in 1..Len(kernels) :
        /\ k1 < k2 /\ kernels[k1].uri = kernels[k2].uri
        /\ kernels[k1].metadataId # kernels[k2].metadataId
        /\ kernels[k1].disposed /\ ~kernels[k2].disposed

\* This step is a getOrCreate call.
IsGetOrCreate == lastCall'.flip # lastCall.flip

C5_Step ==
    IsGetOrCreate =>
        LET same == { k \in LiveKernels(lastCall'.uri) :
                        kernels[k].metadataId = lastCall'.metadataId }
        IN same # {} => /\ lastCall'.kernel \in same
                        /\ kernels' = kernels
                        /\ kernelEvents' = kernelEvents
                        /\ kernelsByNotebook' = kernelsByNotebook
                        /\ kernelsByUri' = kernelsByUri

\* C5: getOrCreate is idempotent.  A request for an identity that has a live
\* kernel with the requested connection-metadata id (one an earlier request
\* made, not disposed since) returns that kernel, constructs none and fires
\* no event.
C5_Idempotent == [][C5_Step]_vars

\* The second of two requests returned the one kernel there is, still live.
C5_Witness ==
    /\ Len(kernels) = 1 /\ ~kernels[1].disposed
    /\ lastCall.kernel = 1 /\ ~lastCall.flip
    /\ lastCall.uri \in notebookDocuments

C6_Step ==
    IsGetOrCreate =>
        LET uri == lastCall'.uri
            K1 == get_kernel(uri)
            K2 == lastCall'.kernel
        IN (K1 # 0 /\ ~kernels[K1].disposed /\ kernels[K1].metadataId # lastCall'.metadataId)
              => /\ K2 # K1
                 /\ K2 = Len(kernels) + 1
                 /\ kernels'[K1].disposed
                 /\ ~kernels'[K2].disposed
                 /\ kernels'[K2].metadataId = lastCall'.metadataId
                 /\ \E n \in 1..Len(kernelEvents') :
                       /\ kernelEvents'[n] = <<"disposed", K1>>
                       /\ kernelEvents'[Len(kernelEvents')] = <<"created", K2>>
                       /\ n < Len(kernelEvents')
                 /\ getInternalIn([kernels |-> kernels', byNotebook |-> kernelsByNotebook',
                                   byUri |-> kernelsByUri', events |-> kernelEvents'],
                                  uri).kernel = K2

C6_GetNeverOld ==
    \A uri \in Uris :
        LET k == get_kernel(uri)
        IN k # 0 => /\ kernels[k].uri = uri
                    /\ ~kernels[k].disposed
                    /\ \A j \in 1..Len(kernels) : j > k => kernels[j].uri # uri

\* C6: kernel switch.  With a live kernel K1 for document D, getOrCreate(D)
\* with another connection id fires K1's disposed event before the new kernel
\* K2 is constructed and returned, K2 is another instance, and get(D) returns
\* K2 from then on: never a disposed kernel, never an older one.
C6_KernelSwitch == []C6_GetNeverOld /\ [][C6_Step]_vars

\* After a switch: K1 disposed, then K2 created, and get(D) is K2.
C6_Witness ==
    \E uri \in Uris :
        /\ Len(kernels) = 2
        /\ kernelEvents = << <<"created", 1>>, <<"disposed", 1>>, <<"created", 2>> >>
        /\ kernels[1].uri = uri /\ kernels[2].uri = uri
        /\ kernels[1].metadataId # kernels[2].metadataId
        /\ get_kernel(uri) = 2 /\ lastCall.kernel = 2

-----------------------------------------------------------------------------
\* JupyterSessionManager.startNew

-----------------------------------------------------------------------------
\* JupyterSessionManager.secureConnectionCheck

\* The connection of the scenario: not a local launch, http, token 'null'.
ScenarioConnection(connInfo) ==
    ~connInfo.localLaunch /\ ~StartsWithHttps(connInfo.baseUrl) /\ connInfo.token = "null"

\* The warnings shown so far for a base url.
PromptsFor(baseUrl) == {p \in 1..Len(prompts) : prompts[p].baseUrl = baseUrl}

Connects(m) == managers[m].pc = "new" /\ managers'[m].pc # "new"

Resumes(m) == managers[m].pc = "awaitTrust" /\ managers'[m].pc # "awaitTrust"

C8_ConnectStep(m) ==
    LET connInfo == managers'[m].connInfo IN
    (Connects(m) /\ ScenarioConnection(connInfo) /\ ~userAllowsInsecureConnections) =>
        IF secureServers[connInfo.baseUrl] = 0
        THEN /\ prompts' = Append(prompts, [baseUrl |-> connInfo.baseUrl,
                                            hostName |-> connInfo.hostName,
                                            response |-> "pending"])
             /\ managers'[m].pc = "awaitTrust"
             /\ managers'[m].promise = Len(prompts')
        ELSE /\ prompts' = prompts
             /\ managers'[m].pc = "awaitTrust"
             /\ managers'[m].promise = secureServers[connInfo.baseUrl]

C8_ResumeStep(m) ==
    Resumes(m) =>
        LET response == prompts[managers[m].promise].response IN
        /\ response = "No" =>
              managers'[m].pc = "failed" /\ managers'[m].error = "insecureSessionDenied"
        /\ response = "Yes" =>
              \/ managers'[m].pc = "awaitPassword"
              \/ managers'[m].pc = "failed" /\ managers'[m].error = "passwordNotAllowed"

C8_PasswordStep(m) ==
    (managers[m].pc = "awaitPassword" /\ managers'[m].pc = "failed") =>
        managers'[m].error = "passwordFailure"

C9_TokenlessNeedsTrust ==
    \A m \in ManagerIds :
        LET mgr == managers[m] IN
        (/\ mgr.pc = "ready"
         /\ ~mgr.connInfo.localLaunch
         /\ ~StartsWithHttps(mgr.connInfo.baseUrl)
         /\ Tokenless(mgr.connInfo)
         /\ ~mgr.connInfo.getAuthHeader
         /\ ~mgr.optedIn
         /\ ~mgr.hadDecision) =>
            /\ mgr.promise # 0
            /\ PromptValue(prompts[mgr.promise].response)

ConsultsCache(mgr) == mgr.pc # "new" /\ ~mgr.optedIn /\ ~IsSecure(mgr.connInfo)

OptInChosen == \E p \in 1..Len(prompts) : prompts[p].response = "DoNotShowAgain"

C11_ConnectStep(m) ==
    (Connects(m) /\ OptInChosen) =>
        /\ prompts' = prompts
        /\ secureServers' = secureServers
        /\ managers'[m].optedIn
        /\ managers'[m].pc # "awaitTrust"
        /\ managers'[m].error # "insecureSessionDenied"

\* C11: once "do not show again" has been chosen, a connect that begins
\* later shows no warning, whatever its server, and the trust check lets it
\* pass: it never waits for a warning and never fails with
\* insecureSessionDenied.
C11_PermanentOptIn ==
    /\ [][\A m \in ManagerIds : C11_ConnectStep(m)]_vars
    /\ [](\A m \in ManagerIds :
             managers[m].optedIn =>
                 /\ managers[m].promise = 0
                 /\ managers[m].pc # "awaitTrust"
                 /\ managers[m].error # "insecureSessionDenied")

\* The first warning was answered "do not show again"; a later connect to a
\* non-local http server with token 'null' has its settings, and no second
\* warning was shown.
C11_Witness ==
    /\ Len(prompts) = 1
    /\ prompts[1].response = "DoNotShowAgain"
    /\ \E m \in ManagerIds :
          /\ managers[m].optedIn
          /\ ScenarioConnection(managers[m].connInfo)
          /\ managers[m].pc = "ready"

\* The connection has neither a token nor an authorization header accessor.
NeedsPassword(connInfo) == connInfo.token \in {"", "null"} /\ ~connInfo.getAuthHeader

\* The trust check of the manager has let it pass.
PastTrustCheck(mgr) ==
    \/ mgr.pc \in {"awaitPassword", "ready"}
    \/ mgr.pc = "failed" /\ mgr.error # "insecureSessionDenied"

\* C12: password negotiation.  Past the trust check, a connection without
\* token and without authorization header has the password callback invoked
\* once, unless password prompts are disallowed: then the connect has failed
\* with the callback not invoked.  When the callback yielded no connection
\* info the connect has failed with the password error, and else it has not
\* failed.  With a token or an authorization header the callback is never
\* invoked.
C12_PasswordNegotiation ==
    \A m \in ManagerIds :
        LET mgr == managers[m] IN
        /\ ~NeedsPassword(mgr.connInfo) =>
              /\ mgr.passwordRequests = 0
              /\ mgr.error \notin {"passwordNotAllowed", "passwordFailure"}
        /\ (NeedsPassword(mgr.connInfo) /\ PastTrustCheck(mgr)) =>
              IF mgr.failOnPassword
              THEN /\ mgr.passwordRequests = 0
                   /\ mgr.pc = "failed" /\ mgr.error = "passwordNotAllowed"
              ELSE /\ mgr.passwordRequests = 1
                   /\ mgr.pwSettings = "undefined" =>
                         mgr.pc = "failed" /\ mgr.error = "passwordFailure"
                   /\ mgr.pwSettings \in {"requestHeaders", "noHeaders"} =>
                         mgr.pc = "ready"
                   /\ mgr.pwSettings = "none" => mgr.pc = "awaitPassword"
        /\ ~PastTrustCheck(mgr) => mgr.passwordRequests = 0

\* With password prompts disallowed, a connect to a server with an empty
\* token has failed without a request; another connect, to a server with
\* token 'null', has asked for the password, got nothing, and failed.
C12_Witness ==
    /\ \E m \in ManagerIds :
          /\ managers[m].connInfo.token = ""
          /\ ~managers[m].connInfo.getAuthHeader
          /\ managers[m].failOnPassword
          /\ managers[m].error = "passwordNotAllowed"
    /\ \E m \in ManagerIds :
          /\ managers[m].connInfo.token = "null"
          /\ managers[m].passwordRequests = 1
          /\ managers[m].error = "passwordFailure"

\* The user has picked the enable option of a self-signed-certificate message.
EnableChosen == \E m \in ManagerIds : managers[m].selfCert = "enable"

\* C13: the agent of a manager's settings accepts any certificate only when
\* the base url is https and allowUnauthorizedRemoteConnection is on; the
\* setting is off at first, and it is on only after the user has picked the
\* enable option of the self-signed-certificate message.
C13_CertificateValidation ==
    /\ allowUnauthorizedRemoteConnection => EnableChosen
    /\ \A m \in ManagerIds :
          managers[m].agentRelaxed =>
              /\ managers[m].connInfo.baseUrl[1] = "https:"
              /\ allowUnauthorizedRemoteConnection
              /\ EnableChosen

\* A connect over https failed on the certificate and the user picked the
\* enable option; the settings of a later connect carry the relaxed agent.
C13_Witness ==
    /\ \E m \in ManagerIds : managers[m].selfCert = "enable"
    /\ \E m \in ManagerIds : managers[m].pc = "ready" /\ managers[m].agentRelaxed

-----------------------------------------------------------------------------
\* JupyterSessionManager.dispose

\* C19: dispose always completes without rejecting.  No dispose call ever
\* rejects, whatever is thrown while the managers are disposed; and a call
\* that waits for the readiness of the session manager completes, also when
\* that readiness never comes.
C19_DisposeCompletes ==
    /\ [](\A j \in DisposeCallIds : disposeCalls[j] # "rejected")
    /\ \A j \in DisposeCallIds :
          (disposeCalls[j] = "waiting") ~> (disposeCalls[j] \in {"done", "doneLogged"})

\* The ready promise of the session manager never settles.  One dispose call
\* has waited, had an exception from the disposal, logged it and completed;
\* another has waited and disposed the session manager.
C19_Witness ==
    /\ manager.ready = "never"
    /\ disposeCalls[1] = "doneLogged"
    /\ disposeCalls[2] = "done"
    /\ manager.sessionManagerDisposed = 1

\* C20: startNew on a manager that is torn down (initialize has not
\* succeeded, or a dispose call has completed) fails with
\* SessionDisposedError and constructs no session.
C20_TornDownRejects ==
    \A i \in StartCallIds :
        (startCalls[i].pc # "idle" /\ startCalls[i].tornDown) =>
            /\ startCalls[i].result = "SessionDisposedError"
            /\ startCalls[i].session = 0

-----------------------------------------------------------------------------
\* JupyterSessionManager.getKernelSpecs

\* C14: a getKernelSpecs call whose refresh has brought the server's list
\* returns one spec per name of that list when it is not empty; with an
\* empty list it returns the list known when the call began, when that one
\* was not empty, and else exactly the one default spec.  It never returns
\* the empty sequence.
C14_KernelSpecsFallback ==
    \A c \in SpecCallIds :
        LET call == specCalls[c] IN
        (call.pc = "done" /\ call.refreshed = "refreshed") =>
            /\ call.result # "empty"
            /\ call.reported # {} => call.result = "specs" /\ call.specs = call.reported
            /\ (call.reported = {} /\ call.old # {}) =>
                  call.result = "specs" /\ call.specs = call.old
            /\ (call.reported = {} /\ call.old = {}) => call.result = "default"

\* The server has reported no kernel spec, none was known before, and the
\* call has returned the default spec.
C14_Witness ==
    \E c \in SpecCallIds :
        /\ specCalls[c].pc = "done"
        /\ specCalls[c].refreshed = "refreshed"
        /\ specCalls[c].reported = {}
        /\ specCalls[c].old = {}
        /\ specCalls[c].result = "default"

\* C15: getKernelSpecs always completes.  A call that waits, for the session
\* manager's readiness or for the refresh, completes, also when neither ever
\* comes; and a call whose refresh was abandoned answers with specs it knows,
\* which are those known at its beginning when there were some, or with the
\* default spec.
C15_KernelSpecsCompletes ==
    /\ \A c \in SpecCallIds :
          (specCalls[c].pc \in {"waitReady", "waitRefresh"}) ~> (specCalls[c].pc = "done")
    /\ [](\A c \in SpecCallIds :
             (specCalls[c].pc = "done" /\ specCalls[c].refreshed = "timeout") =>
                 /\ specCalls[c].result \in {"specs", "default"}
                 /\ specCalls[c].result = "specs" => specCalls[c].specs # {}
                 /\ specCalls[c].old # {} => specCalls[c].result = "specs")

\* The session manager never becomes ready and the refresh never returns;
\* the call has completed with the specs known before.
C15_Witness ==
    /\ manager.ready = "never"
    /\ \E c \in SpecCallIds :
          /\ specCalls[c].pc = "done"
          /\ specCalls[c].refresh = "never"
          /\ specCalls[c].refreshed = "timeout"
          /\ specCalls[c].old # {}
          /\ specCalls[c].result = "specs"
          /\ specCalls[c].specs = specCalls[c].old

\* C16: a getKernelSpecs call whose refresh has failed does not throw, and
\* returns the list known before the refresh when that one was not empty.
C16_RefreshFailureRecovered ==
    \A c \in SpecCallIds :
        LET call == specCalls[c] IN
        (call.pc = "done" /\ call.refreshed = "rejected") =>
            /\ call.result # "SessionDisposedError"
            /\ call.old # {} => call.result = "specs" /\ call.specs = call.old

-----------------------------------------------------------------------------
\* JupyterSessionManager.getRunningKernels, getRunningSessions

\* The index of the first model with this id.
FirstWithId(models, id) ==
    CHOOSE i \in 1..Len(models) :
        /\ models[i].id = id
        /\ \A j \in 1..Len(models) : models[j].id = id => i <= j

\* C17: getRunningKernels removes duplicates by id and keeps the first
\* occurrence.  The result has no id twice, has every id of the server's
\* list, has for each id the first model of the list with that id, and has
\* them in the order of these first occurrences.
C17_RunningKernelsDeduplicated ==
    running.call = "getRunningKernels" =>
        LET models == running.models
            result == running.result
        IN  /\ \A i, j \in 1..Len(result) : result[i].id = result[j].id => i = j
            /\ {result[i].id : i \in 1..Len(result)} = {models[i].id : i \in 1..Len(models)}
            /\ \A i \in 1..Len(result) :
                  result[i] = RunningKernel(models[FirstWithId(models, result[i].id)])
            /\ \A i, j \in 1..Len(result) :
                  i < j => FirstWithId(models, result[i].id) < FirstWithId(models, result[j].id)

\* The server's list has the ids a, a, b, the two models of a under
\* different names; the result is the first a and b.
C17_Witness ==
    /\ running.call = "getRunningKernels"
    /\ running.models = <<[id |-> "a", name |-> "x"], [id |-> "a", name |-> "y"],
                          [id |-> "b", name |-> "x"]>>
    /\ running.result = <<[id |-> "a", name |-> "x"], [id |-> "b", name |-> "x"]>>

\* C18: the sequence getRunningSessions returns has no two sessions of one
\* kernel.
C18_RunningSessionsDeduplicated ==
    running.call = "getRunningSessions" =>
        \A i, j \in 1..Len(running.result) :
            running.result[i].kernelId = running.result[j].kernelId => i = j

----------------------------------------------------------------------------
(***************************************************************************)
(* JupyterSessionManagerFactory, RemoteKernelFinder: properties            *)
(***************************************************************************)

\* The live entries of a list of items, as session ids.
LiveSessions(items) ==
    { items[j].session : j \in {h \in 1..Len(items) : items[h].kind = "connectToLiveRemoteKernel"} }

\* C21: every restart-session-created and restart-session-used event a
\* session of a manager made by create fires is delivered, with the same
\* kernel connection, to every listener of the factory-level event of that
\* kind: each consumer that subscribed to it, whenever it subscribed, is called
\* once with that connection, and so are the listeners of the kernel finder,
\* which add the kernel to the ignore list or remove it.
C21_EventsRebroadcast ==
    [][\A kernel \in KernelConnections :
          restartSessions'[kernel.id] # restartSessions[kernel.id] =>
              LET kind == restartSessions'[kernel.id].state
              IN /\ \A s \in SubscriberIds :
                        subscribers'[s].log =
                            IF kind \in subscribers[s].events
                            THEN Append(subscribers[s].log, [kind |-> kind, kernel |-> kernel])
                            ELSE subscribers[s].log
                 /\ kind = "created" => {kernel.id, kernel.clientId} \subseteq kernelIdsToHide'
                 /\ kind = "used" => {kernel.id, kernel.clientId} \cap kernelIdsToHide' = {}]_vars

\* A consumer that subscribed to both events before the factory had created
\* any manager was delivered the created and the used event of kernel a,
\* fired by the second manager.
C21_Witness ==
    /\ subscribers["s1"].early = EventKinds
    /\ subscribers["s1"].log =
          <<[kind |-> "created", kernel |-> [id |-> "a", clientId |-> "client-a"]],
            [kind |-> "used", kernel |-> [id |-> "a", clientId |-> "client-a"]]>>
    /\ restartSessions["a"] = [state |-> "used", manager |-> 2]

C23_ListingNeverFails ==
    listCall.pc = "done" /\ listCall.failure # "none" =>
        listCall.outcome = "returned" /\ listCall.items = << >>

\* C24: the sequence listKernels returns never has two entries with the
\* same id.
C24_ListingDeduplicated ==
    listCall.pc = "done" /\ listCall.outcome = "returned" =>
        \A i, j \in 1..Len(listCall.items) :
            listCall.items[i].id = listCall.items[j].id => i = j

----------------------------------------------------------------------------
(***************************************************************************)
(* ServerCache.dispose: properties                                         *)
(***************************************************************************)

\* The dispose call that steps from idle in this step, 0 when there is none.
Disposing ==
    IF \E d \in ShutdownCallIds : shutdownCalls[d].pc = "idle" /\ shutdownCalls'[d].pc # "idle"
    THEN CHOOSE d \in ShutdownCallIds : shutdownCalls[d].pc = "idle" /\ shutdownCalls'[d].pc # "idle"
    ELSE 0

\* C27: the first ServerCache.dispose() takes every entry of the cache into
\* its snapshot and leaves the cache empty in the step in which it is called,
\* before it awaits anything; of the snapshotted entries it calls dispose
\* exactly once on the server of each entry whose creation gave a server
\* before the sleep of one second ended the race, and on no other; a dispose()
\* call on a disposed cache changes nothing and is done at once.
C27_DisposeSnapshotsAndDisposesOnce ==
    /\ [](\A e \in 1..Len(entries) :
             /\ entries[e].disposals = IF entries[e].raced = "server" THEN 1 ELSE 0
             /\ entries[e].raced = "server" => created[entries[e].data].disposed
             /\ \A f \in 1..Len(entries) : entries[e].data = entries[f].data => e = f)
    /\ [][\A e \in 1..Len(entries) :
             Len(entries') = Len(entries) /\ entries[e].pc = "racing" /\ entries'[e].pc # "racing" =>
                 (entries'[e].raced = "server" <=> created[entries[e].data].state = "server")]_vars
    /\ [][Disposing # 0 =>
            IF disposed
            THEN /\ shutdownCalls'[Disposing].pc = "done"
                 /\ UNCHANGED <<disposed, entries, cache, created>>
            ELSE /\ disposed'
                 /\ { entries'[e].data : e \in 1..Len(entries') } =
                       { c \in 1..Len(created) : cache[created[c].key] = c }
                 /\ \A e \in 1..Len(entries') : entries'[e].pc = "racing"
                 /\ \A key \in KeySet : cache'[key] = 0]_vars

\* Two entries were snapshotted; the creation of the first gave a server,
\* which was disposed once, the second was still pending after one second; a
\* second dispose() call found the cache disposed and is done.
C27_Witness ==
    /\ Len(entries) = 2
    /\ entries[1].raced = "server" /\ entries[1].pc = "done" /\ entries[1].disposals = 1
    /\ entries[2].raced = "timeout"
    /\ shutdownCalls[1].pc = "done"
    /\ shutdownCalls[2] = [pc |-> "done", first |-> FALSE]

\* C28: ServerCache.dispose() always completes: every dispose call that
\* waits for its entries is done in the end, whatever the creation promises
\* and the disposals of the servers do.
C28_DisposeCompletes ==
    \A d \in ShutdownCallIds :
        (shutdownCalls[d].pc = "waiting") ~> (shutdownCalls[d].pc = "done")

----------------------------------------------------------------------------
(***************************************************************************)
(* DataScienceErrorHandler: properties                                     *)
(***************************************************************************)

\* C25: after any sequence of handleError and handleKernelError calls the
\* user has been shown at most one message, prompt or install flow for each
\* error instance.
C25_ShownAtMostOnce == \A e \in BaseErrors : shown[e] <= 1

\* C26: a cancellation error, wrapped or not, is never shown: a call on it
\* returns without a message and without an install flow, handleKernelError
\* with cancel and getErrorMessageForDisplayInCell with the empty string, and
\* no call has shown anything for it.
C26_CancellationNeverShown ==
    /\ \A e \in BaseErrors :
          e.kind \in {"VscCancellationError", "CancellationError"} => shown[e] = 0
    /\ errorCall.pc # "idle" /\ errorCall.err.kind \in {"VscCancellationError", "CancellationError"} =>
          /\ errorCall.pc = "done"
          /\ errorCall.messages = 0 /\ errorCall.installs = 0 /\ errorCall.prompt = "none"
          /\ errorCall.fn = "handleError" => errorCall.result = "void"
          /\ errorCall.fn = "handleKernelError" => errorCall.result = "cancel"
          /\ errorCall.fn = "getErrorMessageForDisplayInCell" => errorCall.result = ""

\* The second call is handleKernelError, in the start context, on a wrapped
\* CancellationError that handleError has seen: it returned cancel.
C26_Witness ==
    /\ errorCall.n = 2
    /\ errorCall.fn = "handleKernelError" /\ errorCall.context = "start"
    /\ errorCall.err.kind = "CancellationError" /\ errorCall.wrapped
    /\ errorCall.err \in handledErrors
    /\ errorCall.result = "cancel"

\* C29: handleKernelError on a JupyterKernelDependencyError with reason
\* uiHidden, or on a JupyterInstallError in the start or restart context,
\* starts the install flow of the dependency manager exactly once, shows no
\* message, and returns ok when the install response is ok and cancel when
\* it is anything else; on a JupyterKernelDependencyError with another reason
\* it returns that reason at once and starts no install flow.
C29_DependencyResponse ==
    errorCall.fn = "handleKernelError" =>
        /\ \/ errorCall.err.kind = "JupyterKernelDependencyError" /\ errorCall.err.reason = "uiHidden"
           \/ errorCall.err.kind = "JupyterInstallError" /\ errorCall.context \in {"start", "restart"}
           => /\ errorCall.installs = 1 /\ errorCall.messages = 0
              /\ errorCall.pc \in {"installing", "done"}
              /\ errorCall.pc = "done" =>
                    /\ errorCall.response \in {"ok", "selectAnotherInterpreter", "cancel"}
                    /\ errorCall.result = "ok" <=> errorCall.response = "ok"
                    /\ errorCall.result \in {"ok", "cancel"}
        /\ errorCall.err.kind = "JupyterKernelDependencyError" /\ errorCall.err.reason # "uiHidden"
           => /\ errorCall.pc = "done" /\ errorCall.result = errorCall.err.reason
              /\ errorCall.installs = 0 /\ errorCall.messages = 0

\* handleKernelError on a JupyterKernelDependencyError with reason uiHidden:
\* the install flow answered that another interpreter is to be selected, and
\* the call returned cancel.
C29_Witness ==
    /\ errorCall.fn = "handleKernelError" /\ errorCall.pc = "done"
    /\ errorCall.err.kind = "JupyterKernelDependencyError" /\ errorCall.err.reason = "uiHidden"
    /\ errorCall.response = "selectAnotherInterpreter"
    /\ errorCall.result = "cancel"

----------------------------------------------------------------------------
(***************************************************************************)
(* NotebookCommunication: properties                                       *)
(***************************************************************************)

\* C30: the messages delivered to the listener, followed by the messages
\* still buffered, are the messages received for the communication's own
\* editor from the controller that was active when each arrived, in arrival
\* order and each once; nothing waits in the buffer once the listener is
\* hooked up and the timeout of the getter has fired; nothing is delivered
\* before the listener is hooked up, and what was delivered stays delivered.
C30_DeliveredEqualsReceived ==
    /\ [](/\ delivered \o comm.pendingMessages = received
          /\ ~comm.eventHandlerListening => delivered = << >>
          /\ comm.eventHandlerListening /\ ~comm.timer => comm.pendingMessages = << >>
          /\ \A i \in 1..Len(received) :
                /\ controllerMessages[received[i]].editor = "own"
                /\ controllerMessages[received[i]].controller = controllerMessages[received[i]].active)
    /\ [][/\ Len(delivered') >= Len(delivered)
          /\ SubSeq(delivered', 1, Len(delivered)) = delivered]_vars

\* Message 1 came from controller A and was buffered; the controller was
\* changed to B; message 2, from the replaced controller A for the same
\* editor, was dropped; the listener was hooked up, and message 3, from B,
\* was delivered after message 1.
C30_Witness ==
    /\ delivered = <<1, 3>>
    /\ Len(controllerMessages) = 3
    /\ controllerMessages[2] = [controller |-> "A", editor |-> "own", active |-> "B"]
    /\ comm.controller = "B"
    /\ comm.eventHandlerListening

----------------------------------------------------------------------------
(***************************************************************************)
(* ServerCache: evictions and the disposed cache                           *)
(***************************************************************************)

\* C36: an eviction triggered by an earlier creation never removes an entry
\* that was inserted later under the same key.  An entry leaves the cache only
\* by its own creation's failure (its promise rejected or resolved to no
\* server), by the dispose of its own server, or by the clear of
\* ServerCache.dispose.
C36_EvictionSparesLaterEntry ==
    [][\A c \in 1..Len(created) :
          (cache[created[c].key] = c /\ cache'[created[c].key] # c)
              => \/ created'[c].state \in {"none", "rejected"}
                 \/ created'[c].disposed
                 \/ (~disposed /\ disposed')]_vars

\* C40: once ServerCache.dispose() has been called the cache never again
\* holds an entry.
C40_DisposedCacheStaysEmpty ==
    disposed => \A key \in KeySet : cache[key] = 0

-----------------------------------------------------------------------------
\* JupyterSessionManager.dispose, overlapping calls

-----------------------------------------------------------------------------
\* JupyterSessionManager.initialize: the trust check comes first

\* C38: when the user denies the insecure connection, initialize fails
\* before the password callback is invoked and before the settings or any
\* lab manager is set, and startNew on that manager fails with
\* SessionDisposedError.
C38_DeniedBeforeAnythingElse ==
    \A m \in ManagerIds :
        managers[m].error = "insecureSessionDenied" =>
            /\ managers[m].pc = "failed"
            /\ managers[m].passwordRequests = 0
            /\ ~managers[m].serverSettings
            /\ ~initialized[m].labManagers
            /\ initialized[m].startNew # "session"

\* The connection of a manager has no token (so a password would be asked
\* for), the user answered No to the warning, and startNew was called on the
\* manager after its initialize had failed.
C38_Witness ==
    \E m \in ManagerIds :
        /\ managers[m].error = "insecureSessionDenied"
        /\ Tokenless(managers[m].connInfo) /\ ~managers[m].connInfo.getAuthHeader
        /\ ~managers[m].failOnPassword
        /\ prompts[managers[m].promise].response = "No"
        /\ initialized[m].startNew = "SessionDisposedError"
        /\ initialized[m].afterFailure

-----------------------------------------------------------------------------
\* NotebookIPyWidgetCoordinator

\* C35: a message coordinator is created for a document only if none is
\* registered for it.  Between two controller selections or closes of a
\* document CommonMessageCoordinator.create is called at most once for it:
\* once when a coordinator is registered, and not at all when none is.
C35_OneCoordinatorPerDocument ==
    \A document \in Documents :
        coordinatorCreates[document] = IF messageCoordinators[document] THEN 1 ELSE 0

\* Both editors of the split document were initialized in the same turn, by
\* the selection of a controller for it, and one coordinator was created.
C35_Witness ==
    /\ {1, 2} \subseteq notebookEditors
    /\ notebookCommunications[1] = [controller |-> "B", disposed |-> FALSE]
    /\ notebookCommunications[2] = [controller |-> "B", disposed |-> FALSE]
    /\ selectedControllers["nbA"] = "B"
    /\ coordinatorCreates["nbA"] = 1

\* C39: every communication object is bound to the controller that was
\* selected for the document of its own editor.
C39_BoundToOwnDocumentsController ==
    \A editor \in notebookEditors :
        notebookCommunications[editor] # NoComm =>
            notebookCommunications[editor].controller
                = selectedControllers[EditorDocuments[editor]]

-----------------------------------------------------------------------------
\* InteractiveWindowProvider.getOrCreate

\* Two calls have the same target: the same owner in perFile mode, or any
\* owners in single mode.
SameTarget(i, j) ==
    \/ /\ windowCalls[i].mode = "perFile" /\ windowCalls[j].mode = "perFile"
       /\ windowCalls[i].resource = windowCalls[j].resource
    \/ windowCalls[i].mode = "single" /\ windowCalls[j].mode = "single"

-----------------------------------------------------------------------------
\* sendTelemetryEvent

\* The waitBeforeSending promise of event a has settled, or a timer of 30
\* seconds set for it has fired.
Released(a) ==
    \/ telemetryEvents[a].wait = "settled"
    \/ \E h \in 1..Len(telemetryHandlers) :
          telemetryHandlers[h].item = a /\ telemetryHandlers[h].timer = "fired"

\* C32: an event submitted with a waitBeforeSending promise, and every event
\* submitted after it, is sent only after that promise has settled or its 30
\* seconds have elapsed; events are sent in the order of their submission,
\* none twice; and every event submitted is sent in the end.
C32_SentInOrderAfterWait ==
    /\ [](/\ \A k \in 1..Len(telemetrySent), a \in TelemetryEvents :
                (a <= telemetrySent[k] /\ telemetryEvents[a].wait # "none") => Released(a)
          /\ \A k, l \in 1..Len(telemetrySent) :
                k < l => telemetrySent[k] < telemetrySent[l])
    /\ \A e \in TelemetryEvents :
          telemetryEvents[e].submitted ~> (\E k \in 1..Len(telemetrySent) : telemetrySent[k] = e)

\* Two events were submitted, the first with a promise that never settled
\* and the second without one; both were sent, in that order, after a timer of
\* the first had fired, and a second timer set for the first event fired when
\* the event was sent already.
C32_Witness ==
    /\ telemetrySent = <<1, 2>>
    /\ telemetryEvents[1].wait = "pending"
    /\ telemetryEvents[2].wait = "none"
    /\ \E h, g \in 1..Len(telemetryHandlers) :
          /\ h # g
          /\ telemetryHandlers[h].item = 1 /\ telemetryHandlers[g].item = 1
          /\ telemetryHandlers[h].timer = "fired" /\ telemetryHandlers[g].timer = "fired"

-----------------------------------------------------------------------------
\* KernelFinder.isValidCachedKernel

\* C33: a cached startUsingLocalKernelSpec kernel is accepted only if its spec
\* file, when it has one, exists and its interpreter, when it has one, exists;
\* so one whose spec file has been removed is reported invalid.
C33_LocalKernelSpecNeedsItsFiles ==
    (/\ validatedKernel.kernel.kind = "startUsingLocalKernelSpec"
     /\ validatedKernel.result = "valid")
        => /\ validatedKernel.kernel.specFile # ""
                 => validatedKernel.kernel.specFile \in validatedKernel.files
           /\ validatedKernel.kernel.interpreter # ""
                 => validatedKernel.kernel.interpreter \in validatedKernel.files

-----------------------------------------------------------------------------
\* PlotViewer.exportPlot, saveSvgToPdf

\* C34: saveSvgToPdf terminates: once the write stream has emitted 'finish'
\* the promise it returned resolves, so an export to PDF that exportPlot
\* started completes in the end.
C34_PdfExportCompletes ==
    \A i \in ExportCallIds :
        (exportCalls[i].pc = "awaitDeferred") ~> (exportCalls[i].pc = "done")

====
